---- MODULE Spec2Model ----
(***************************************************************************)
(* Buy-vs-rent calculator: the simulation engine of src/calculations.rs    *)
(* (calculate_monthly_payment, remaining_balance, calculate,               *)
(* calculate_difference_for_value, generate_sensitivity_data).             *)
(*                                                                         *)
(* The engine computes in f64.  The model keeps the shape of IEEE-754      *)
(* binary floating point (sign, mantissa, exponent, round-to-nearest-even  *)
(* after every operation, infinities and NaN) at a reduced mantissa width  *)
(* MantBits, so that what rounding does to an identity shows in the runs.  *)
(* The u32 fields are integers.                                            *)
(***************************************************************************)
EXTENDS Integers, Sequences, FiniteSets, TLC

\* Width of the mantissa of the modelled floating-point format (f64: 53).
MantBits == 8

\* Longest loan term and longest time horizon, in years, the model draws.
MaxYears == 2

\* Longest term, in years, the model hands to the amortization helpers.
MaxTermYears == 5

\* Largest sample count the model hands to generate_sensitivity_data.
MaxSteps == 7

(***************************************************************************)
(* State: one caller, one call at a time (the engine is synchronous).      *)
(*   pc      where the caller is: "idle", inside calculate ("loop"), back  *)
(*           from it ("done"), back from an amortization helper ("amort"), *)
(*           inside generate_sensitivity_data ("sweep") or back from it    *)
(*           ("swept")                                                     *)
(*   inputs  the caller's Inputs record                                    *)
(*   loc     the locals of calculate's frame                               *)
(*   result  the CalculationResult calculate returned                      *)
(*   am      the arguments and return value of an amortization helper call *)
(*   sw      the arguments and locals of generate_sensitivity_data         *)
(*   seen    history: the inputs and result of the first calculate call    *)
(*           that returned, and whether a calculate call and a sweep have  *)
(*           returned since (kept only by SpecDet)                         *)
(*   slider  the signals of one SliderInput of the page: its two bounds,   *)
(*           whether each bound's editor is open, the text of each editor, *)
(*           the slider's step and value, and the last event handled with  *)
(*           whether it was a commit that was turned down                  *)
(***************************************************************************)
VARIABLES pc, inputs, loc, result, am, sw, seen, slider

vars == <<pc, inputs, loc, result, am, sw, seen, slider>>

(***************************************************************************)
(* f64: a value is finite (m * 2^e, m = 0 or 2^(MantBits-1) <= |m| <       *)
(* 2^MantBits), an infinity (m = +1 or -1) or NaN.                         *)
(***************************************************************************)
RECURSIVE Pow2(_)
Pow2(n) == IF n <= 0 THEN 1 ELSE 2 * Pow2(n - 1)

RECURSIVE BitLen(_)
BitLen(n) == IF n = 0 THEN 0 ELSE 1 + BitLen(n \div 2)

Abs(n) == IF n < 0 THEN -n ELSE n

Sgn(n) == IF n < 0 THEN -1 ELSE IF n = 0 THEN 0 ELSE 1

NaN == [k |-> "nan", m |-> 0, e |-> 0]

Inf(s) == [k |-> "inf", m |-> s, e |-> 0]

Zero == [k |-> "fin", m |-> 0, e |-> 0]

IsNaN(a) == a.k = "nan"

IsInf(a) == a.k = "inf"

IsFin(a) == a.k = "fin"

IsZero(a) == a.k = "fin" /\ a.m = 0

\* The value s * n * 2^e (n >= 0, plus a nonzero tail below n's last bit when
\* sticky), rounded to nearest, ties to even, at bits bits of mantissa.
RoundBits(bits, s, n, e, sticky) ==
    IF n = 0 THEN Zero
    ELSE LET len == BitLen(n) IN
         IF len <= bits
         THEN [k |-> "fin", m |-> s * n * Pow2(bits - len), e |-> e - (bits - len)]
         ELSE LET sh   == len - bits
                  q    == n \div Pow2(sh)
                  r    == n % Pow2(sh)
                  half == Pow2(sh - 1)
                  up   == r > half \/ (r = half /\ (sticky \/ q % 2 = 1))
                  q1   == IF up THEN q + 1 ELSE q
              IN IF q1 = Pow2(bits)
                 THEN [k |-> "fin", m |-> s * Pow2(bits - 1), e |-> e + sh + 1]
                 ELSE [k |-> "fin", m |-> s * q1, e |-> e + sh]

Round(s, n, e, sticky) == RoundBits(MantBits, s, n, e, sticky)

\* An integer as f64 (u32 as f64, and the literals of the source).
F(n) == Round(Sgn(n), Abs(n), 0, FALSE)

\* n / d for integers n and d > 0, correctly rounded: the nearest f64 to a
\* decimal literal or to a value typed into the page.
Q(n, d) ==
    IF n = 0 THEN Zero
    ELSE LET up == IF BitLen(Abs(n)) >= BitLen(d) + MantBits + 2 THEN 0
                   ELSE BitLen(d) + MantBits + 2 - BitLen(Abs(n))
             num == Abs(n) * Pow2(up)
         IN Round(Sgn(n), num \div d, -up, num % d # 0)

FNeg(a) == IF IsNaN(a) THEN NaN ELSE [a EXCEPT !.m = -a.m]

\* a + b of two finite values.
AddFin(a, b) ==
    IF a.m = 0 THEN b
    ELSE IF b.m = 0 THEN a
    ELSE LET hi == IF a.e >= b.e THEN a ELSE b
             lo == IF a.e >= b.e THEN b ELSE a
             d  == hi.e - lo.e
         IN IF d > MantBits + 2
            THEN hi
            ELSE LET sum == hi.m * Pow2(d) + lo.m
                 IN Round(Sgn(sum), Abs(sum), lo.e, FALSE)

\* f64 +
FAdd(a, b) ==
    IF IsNaN(a) \/ IsNaN(b) THEN NaN
    ELSE IF IsInf(a) /\ IsInf(b) THEN (IF a.m = b.m THEN a ELSE NaN)
    ELSE IF IsInf(a) THEN a
    ELSE IF IsInf(b) THEN b
    ELSE AddFin(a, b)

\* f64 -
FSub(a, b) == FAdd(a, FNeg(b))

\* The sign of a product or quotient; a zero counts as positive.
SignOf(a) == IF a.m < 0 THEN -1 ELSE 1

\* f64 *
FMul(a, b) ==
    IF IsNaN(a) \/ IsNaN(b) THEN NaN
    ELSE IF IsInf(a) \/ IsInf(b)
         THEN (IF IsZero(a) \/ IsZero(b) THEN NaN ELSE Inf(SignOf(a) * SignOf(b)))
    ELSE Round(SignOf(a) * SignOf(b), Abs(a.m) * Abs(b.m), a.e + b.e, FALSE)

\* f64 /
FDiv(a, b) ==
    IF IsNaN(a) \/ IsNaN(b) THEN NaN
    ELSE IF IsInf(a) THEN (IF IsInf(b) THEN NaN ELSE Inf(SignOf(a) * SignOf(b)))
    ELSE IF IsInf(b) THEN Zero
    ELSE IF IsZero(b) THEN (IF IsZero(a) THEN NaN ELSE Inf(SignOf(a) * SignOf(b)))
    ELSE IF IsZero(a) THEN Zero
    ELSE LET num == Abs(a.m) * Pow2(MantBits + 2)
         IN Round(SignOf(a) * SignOf(b), num \div Abs(b.m),
                  a.e - b.e - (MantBits + 2), num % Abs(b.m) # 0)

\* a < b of two finite values.
LtFin(a, b) ==
    IF a.m = 0 \/ b.m = 0 \/ Sgn(a.m) # Sgn(b.m) THEN a.m < b.m
    ELSE IF a.e = b.e THEN a.m < b.m
    ELSE IF a.m > 0 THEN a.e < b.e
    ELSE a.e > b.e

\* f64 <  (false when either side is NaN)
FLt(a, b) ==
    IF IsNaN(a) \/ IsNaN(b) THEN FALSE
    ELSE IF IsInf(a) THEN a.m < 0 /\ ~(IsInf(b) /\ b.m < 0)
    ELSE IF IsInf(b) THEN b.m > 0
    ELSE LtFin(a, b)

\* f64 ==  (false when either side is NaN)
FEq(a, b) == ~IsNaN(a) /\ ~IsNaN(b) /\ a = b

\* f64 >=
FGe(a, b) == FEq(a, b) \/ FLt(b, a)

\* Mutant of FMax: a NaN operand makes the maximum NaN.
FMax_NaN(a, b) ==
    IF IsNaN(a) \/ IsNaN(b) THEN NaN
    ELSE IF FLt(a, b) THEN b ELSE a

\* f64::max: the other operand when one is NaN.
FMax(a, b) ==
    IF IsNaN(a) THEN b
    ELSE IF IsNaN(b) THEN a
    ELSE IF FLt(a, b) THEN b ELSE a

\* Precision libm's pow carries internally, above the format's own.
ExtBits == MantBits + 6

\* a * b at ExtBits bits of mantissa.
MulExt(a, b) ==
    RoundBits(ExtBits, SignOf(a) * SignOf(b), Abs(a.m) * Abs(b.m), a.e + b.e, FALSE)

\* x to the n-th power (n >= 0 an integer) at ExtBits bits of mantissa, by
\* squaring.
RECURSIVE PowExt(_, _)
PowExt(x, n) ==
    IF n = 0 THEN [k |-> "fin", m |-> Pow2(ExtBits - 1), e |-> -(ExtBits - 1)]
    ELSE IF n % 2 = 0 THEN LET h == PowExt(x, n \div 2) IN MulExt(h, h)
    ELSE MulExt(x, PowExt(x, n - 1))

\* The integer a finite f64 holds when it holds one (0 otherwise).
IntOf(a) == IF a.e >= 0 THEN a.m * Pow2(a.e)
            ELSE IF a.m % Pow2(-a.e) = 0 THEN a.m \div Pow2(-a.e) ELSE 0

\* f64::powf(x, y) for the exponents the engine passes: y holds a month count.
Powf(x, y) ==
    IF IsZero(y) THEN F(1)
    ELSE IF IsNaN(x) \/ IsNaN(y) THEN NaN
    ELSE IF IsInf(x) THEN Inf(1)
    ELSE IF IsZero(x) THEN Zero
    ELSE LET pw == PowExt(RoundBits(ExtBits, SignOf(x), Abs(x.m), x.e, FALSE), IntOf(y))
         IN Round(SignOf(pw), Abs(pw.m), pw.e, FALSE)

\* Mutant of AsU32: the value is rounded to the nearest integer.
AsU32_Nearest(a) ==
    IF IsNaN(a) THEN 0
    ELSE IF a.m <= 0 THEN 0
    ELSE IF IsInf(a) \/ BitLen(a.m) + a.e > 31 THEN Pow2(30) - 1 + Pow2(30)
    ELSE IF a.e >= 0 THEN a.m * Pow2(a.e)
    ELSE IF -a.e > MantBits THEN 0
    ELSE (a.m + Pow2(-a.e - 1)) \div Pow2(-a.e)

\* `value as u32`: truncation toward zero, NaN and negatives to 0, saturating
\* above (u32::MAX in the source; the model's integers end at 2^31 - 1, which
\* no run reaches).
AsU32(a) ==
    IF IsNaN(a) THEN 0
    ELSE IF a.m <= 0 THEN 0
    ELSE IF IsInf(a) \/ BitLen(a.m) + a.e > 31 THEN Pow2(30) - 1 + Pow2(30)
    ELSE IF a.e >= 0 THEN a.m * Pow2(a.e)
    ELSE IF -a.e >= MantBits THEN 0
    ELSE a.m \div Pow2(-a.e)

(***************************************************************************)
(* Amortization helpers.                                                   *)
(***************************************************************************)
\* Mutant of calculate_monthly_payment: the zero-rate branch is missing.
calculate_monthly_payment_NoZeroBranch(principal, annual_rate, years) ==
    LET monthly_rate == FDiv(FDiv(annual_rate, F(100)), F(12))
        n  == FMul(F(years), F(12))
        pw == Powf(FAdd(F(1), monthly_rate), n)
    IN FDiv(FMul(principal, FMul(monthly_rate, pw)), FSub(pw, F(1)))

calculate_monthly_payment(principal, annual_rate, years) ==
    IF FEq(annual_rate, F(0))
    THEN FDiv(principal, FMul(F(years), F(12)))
    ELSE LET monthly_rate == FDiv(FDiv(annual_rate, F(100)), F(12))
             n  == FMul(F(years), F(12))
             pw == Powf(FAdd(F(1), monthly_rate), n)
         IN FDiv(FMul(principal, FMul(monthly_rate, pw)), FSub(pw, F(1)))

remaining_balance(principal, annual_rate, years, months_paid) ==
    IF FEq(annual_rate, F(0))
    THEN LET monthly_payment == FDiv(principal, FMul(F(years), F(12)))
         IN FMax(FSub(principal, FMul(monthly_payment, F(months_paid))), F(0))
    ELSE LET monthly_rate == FDiv(FDiv(annual_rate, F(100)), F(12))
             n  == FMul(F(years), F(12))
             monthly_payment == calculate_monthly_payment(principal, annual_rate, years)
             pw == Powf(FAdd(F(1), monthly_rate), F(months_paid))
         IN IF FGe(F(months_paid), n)
            THEN F(0)
            ELSE FSub(FMul(principal, pw),
                      FDiv(FMul(monthly_payment, FSub(pw, F(1))), monthly_rate))

(***************************************************************************)
(* calculate: the locals before the loop, one iteration of the month loop, *)
(* and the final calculations.                                             *)
(***************************************************************************)
\* Mutant of down_payment_of: the percentage is taken as a fraction.
down_payment_of_AsFraction(inp) == FMul(inp.home_price, inp.down_payment_percent)

down_payment_of(inp) == FDiv(FMul(inp.home_price, inp.down_payment_percent), F(100))

loan_amount_of(inp) == FSub(inp.home_price, down_payment_of(inp))

closing_costs_of(inp) == FDiv(FMul(inp.home_price, inp.closing_cost_percent), F(100))

initial_investment_of(inp) == FAdd(down_payment_of(inp), closing_costs_of(inp))

monthly_mortgage_of(inp) ==
    calculate_monthly_payment(loan_amount_of(inp), inp.mortgage_rate, inp.loan_term_years)

monthly_investment_return_of(inp) == FDiv(FDiv(inp.investment_return, F(100)), F(12))

monthly_appreciation_of(inp) == FDiv(FDiv(inp.home_appreciation, F(100)), F(12))

\* Mutant of total_months_of: the loop runs one iteration per year.
total_months_of_Years(inp) == inp.time_horizon_years

\* `let total_months = inputs.time_horizon_years * 12;` (line 165)
total_months_of(inp) == inp.time_horizon_years * 12

\* Mutant of yearly_snapshots_new: the vector outlives the call that filled
\* it.
yearly_snapshots_new_Stale ==
    IF seen = << >> THEN << >> ELSE seen[1].result.yearly_snapshots

\* `let mut yearly_snapshots = Vec::new();`
yearly_snapshots_new == << >>

\* The mutable locals as they stand when the loop is entered; month is the
\* last month the loop has run, and the *_this_month, *_monthly_cost and
\* savings fields hold the last iteration's block-local values.
InitLocals(inp) ==
    [month                        |-> 0,
     total_mortgage_payments      |-> F(0),
     total_property_tax           |-> F(0),
     total_home_insurance         |-> F(0),
     total_hoa                    |-> F(0),
     total_maintenance            |-> F(0),
     current_home_value           |-> inp.home_price,
     total_buy_monthly_costs      |-> F(0),
     buyer_investment_balance     |-> F(0),
     buyer_total_contributions    |-> F(0),
     total_rent_paid              |-> F(0),
     total_renters_insurance      |-> F(0),
     current_rent                 |-> inp.monthly_rent,
     total_rent_monthly_costs     |-> F(0),
     renter_investment_balance    |-> initial_investment_of(inp),
     renter_monthly_contributions |-> F(0),
     yearly_snapshots             |-> yearly_snapshots_new,
     mortgage_this_month          |-> F(0),
     buy_monthly_cost             |-> F(0),
     rent_monthly_cost            |-> F(0),
     buyer_savings                |-> F(0),
     renter_savings               |-> F(0)]

\* month.min(loan_term_years * 12) and total_months.min(loan_term_years * 12).
months_paid_of(inp, month) ==
    IF month < inp.loan_term_years * 12 THEN month ELSE inp.loan_term_years * 12

\* Mutant of buy_net_worth_of: the buyer's investments are left out.
buy_net_worth_of_HomeOnly(inp, home_value, remaining, buyer_balance) ==
    FSub(FSub(home_value, remaining),
         FDiv(FMul(home_value, inp.selling_cost_percent), F(100)))

\* home value - remaining mortgage - selling costs + buyer's investments
\* (lines 258-259 and 279-282).
buy_net_worth_of(inp, home_value, remaining, buyer_balance) ==
    FAdd(FSub(FSub(home_value, remaining),
              FDiv(FMul(home_value, inp.selling_cost_percent), F(100))),
         buyer_balance)

\* Mutant of rent_net_worth_of: the closing costs the renter never paid are
\* taken off.
rent_net_worth_of_LessClosingCosts(inp, renter_balance) ==
    FSub(renter_balance, closing_costs_of(inp))

\* `let rent_net_worth = renter_investment_balance;` (line 260)
rent_net_worth_of(inp, renter_balance) == renter_balance

\* Mutant of Snapshot: no selling costs are deducted before the horizon.
Snapshot_NoSellingCosts(inp, month, home_value, buyer_balance, renter_balance) ==
    [year |-> month \div 12,
     buy_net_worth  |->
        FAdd(FSub(home_value,
                  remaining_balance(loan_amount_of(inp), inp.mortgage_rate,
                                    inp.loan_term_years, months_paid_of(inp, month))),
             buyer_balance),
     rent_net_worth |-> rent_net_worth_of(inp, renter_balance)]

\* The record pushed at a year end.
Snapshot(inp, month, home_value, buyer_balance, renter_balance) ==
    [year |-> month \div 12,
     buy_net_worth  |->
        buy_net_worth_of(inp, home_value,
                         remaining_balance(loan_amount_of(inp), inp.mortgage_rate,
                                           inp.loan_term_years, months_paid_of(inp, month)),
                         buyer_balance),
     rent_net_worth |-> rent_net_worth_of(inp, renter_balance)]

\* Mutant of YearEnd: the year ends a month late.
YearEnd_Late(month) == month % 12 = 1

\* `if month % 12 == 0`
YearEnd(month) == month % 12 = 0

\* Mutant of mortgage_this_month_of: the payment is charged in every month.
mortgage_this_month_of_Always(inp, month) == monthly_mortgage_of(inp)

\* `if month <= inputs.loan_term_years * 12 { monthly_mortgage } else { 0.0 }`
mortgage_this_month_of(inp, month) ==
    IF month <= inp.loan_term_years * 12 THEN monthly_mortgage_of(inp) ELSE F(0)

\* Mutant of property_tax_this_month_of: the tax is on the purchase price.
property_tax_this_month_of_OnPrice(inp, l) ==
    FDiv(FDiv(FMul(inp.home_price, inp.property_tax_rate), F(100)), F(12))

\* `current_home_value * inputs.property_tax_rate / 100.0 / 12.0` (line 200)
property_tax_this_month_of(inp, l) ==
    FDiv(FDiv(FMul(l.current_home_value, inp.property_tax_rate), F(100)), F(12))

maintenance_this_month_of(inp, l) ==
    FDiv(FDiv(FMul(l.current_home_value, inp.maintenance_percent), F(100)), F(12))

monthly_home_insurance_of(inp) == FDiv(inp.home_insurance, F(12))

monthly_renters_insurance_of(inp) == FDiv(inp.renters_insurance, F(12))

buy_monthly_cost_of(inp, mortgage, tax, maintenance) ==
    FAdd(FAdd(FAdd(FAdd(mortgage, tax), monthly_home_insurance_of(inp)), inp.hoa_monthly),
         maintenance)

\* Mutant of rent_monthly_cost_of: the month that ends a year is charged the
\* rent as already raised.
rent_monthly_cost_of_BumpFirst(inp, l) ==
    FAdd(IF YearEnd(l.month + 1)
         THEN FMul(l.current_rent, FAdd(F(1), FDiv(inp.rent_increase_rate, F(100))))
         ELSE l.current_rent,
         monthly_renters_insurance_of(inp))

\* `current_rent + monthly_renters_insurance` (line 210)
rent_monthly_cost_of(inp, l) == FAdd(l.current_rent, monthly_renters_insurance_of(inp))

\* Mutant of BuyCheaper: the comparison is the other way round.
BuyCheaper_Flipped(buy, rent) == FLt(rent, buy)

\* `if buy_monthly_cost < rent_monthly_cost`
BuyCheaper(buy, rent) == FLt(buy, rent)

\* Mutant of renter_savings_of: the renter deposits the whole cost of buying.
renter_savings_of_WholeCost(buy, rent) == IF BuyCheaper(buy, rent) THEN F(0) ELSE buy

\* The savings each side deposits this month (0 for the side that does not).
buyer_savings_of(buy, rent) == IF BuyCheaper(buy, rent) THEN FSub(rent, buy) ELSE F(0)

renter_savings_of(buy, rent) == IF BuyCheaper(buy, rent) THEN F(0) ELSE FSub(buy, rent)

\* Mutant of Grown: the balance earns nothing.
Grown_None(inp, balance) == balance

\* A balance after the month's growth (lines 232 and 235).
Grown(inp, balance) == FMul(balance, FAdd(F(1), monthly_investment_return_of(inp)))

\* The balances after growth and deposit (lines 232-247).
buyer_balance_after(inp, l, buy, rent) ==
    IF BuyCheaper(buy, rent)
    THEN FAdd(Grown(inp, l.buyer_investment_balance), buyer_savings_of(buy, rent))
    ELSE Grown(inp, l.buyer_investment_balance)

\* Mutant of renter_balance_after: the deposit is made before the growth.
renter_balance_after_DepositFirst(inp, l, buy, rent) ==
    IF BuyCheaper(buy, rent)
    THEN Grown(inp, l.renter_investment_balance)
    ELSE Grown(inp, FAdd(l.renter_investment_balance, renter_savings_of(buy, rent)))

renter_balance_after(inp, l, buy, rent) ==
    IF BuyCheaper(buy, rent)
    THEN Grown(inp, l.renter_investment_balance)
    ELSE FAdd(Grown(inp, l.renter_investment_balance), renter_savings_of(buy, rent))

\* buyer_total_contributions after the month (line 241).
buyer_total_contributions_after(l, buy, rent) ==
    IF BuyCheaper(buy, rent)
    THEN FAdd(l.buyer_total_contributions, buyer_savings_of(buy, rent))
    ELSE l.buyer_total_contributions

\* Mutant of renter_monthly_contributions_after: the renter's total takes
\* buy - rent in every month, not only in the else branch.
renter_monthly_contributions_after_EveryMonth(l, buy, rent) ==
    FAdd(l.renter_monthly_contributions, FSub(buy, rent))

\* renter_monthly_contributions after the month (line 246).
renter_monthly_contributions_after(l, buy, rent) ==
    IF BuyCheaper(buy, rent) THEN l.renter_monthly_contributions
    ELSE FAdd(l.renter_monthly_contributions, renter_savings_of(buy, rent))

\* The locals at the end of the iteration for month, given the block-local
\* values computed in it.
MonthEnd(inp, l, month, mortgage, tax, maintenance, buy, rent, home_value, buyer_balance, renter_balance) ==
    [month                        |-> month,
     total_mortgage_payments      |-> FAdd(l.total_mortgage_payments, mortgage),
     total_property_tax           |-> FAdd(l.total_property_tax, tax),
     total_home_insurance         |-> FAdd(l.total_home_insurance, monthly_home_insurance_of(inp)),
     total_hoa                    |-> FAdd(l.total_hoa, inp.hoa_monthly),
     total_maintenance            |-> FAdd(l.total_maintenance, maintenance),
     current_home_value           |-> home_value,
     total_buy_monthly_costs      |-> FAdd(l.total_buy_monthly_costs, buy),
     buyer_investment_balance     |-> buyer_balance,
     buyer_total_contributions    |-> buyer_total_contributions_after(l, buy, rent),
     total_rent_paid              |-> FAdd(l.total_rent_paid, l.current_rent),
     total_renters_insurance      |->
        FAdd(l.total_renters_insurance, monthly_renters_insurance_of(inp)),
     current_rent                 |->
        IF YearEnd(month)
        THEN FMul(l.current_rent, FAdd(F(1), FDiv(inp.rent_increase_rate, F(100))))
        ELSE l.current_rent,
     total_rent_monthly_costs     |-> FAdd(l.total_rent_monthly_costs, rent),
     renter_investment_balance    |-> renter_balance,
     renter_monthly_contributions |-> renter_monthly_contributions_after(l, buy, rent),
     yearly_snapshots             |->
        IF YearEnd(month)
        THEN Append(l.yearly_snapshots,
                    Snapshot(inp, month, home_value, buyer_balance, renter_balance))
        ELSE l.yearly_snapshots,
     mortgage_this_month          |-> mortgage,
     buy_monthly_cost             |-> buy,
     rent_monthly_cost            |-> rent,
     buyer_savings                |-> buyer_savings_of(buy, rent),
     renter_savings               |-> renter_savings_of(buy, rent)]

\* The iteration once both monthly costs are known.
MonthWithCosts(inp, l, mortgage, tax, maintenance, buy, rent) ==
    MonthEnd(inp, l, l.month + 1, mortgage, tax, maintenance, buy, rent,
             FMul(l.current_home_value, FAdd(F(1), monthly_appreciation_of(inp))),
             buyer_balance_after(inp, l, buy, rent),
             renter_balance_after(inp, l, buy, rent))

\* The iteration once the buy-side components are known.
MonthWithParts(inp, l, mortgage, tax, maintenance) ==
    MonthWithCosts(inp, l, mortgage, tax, maintenance,
                   buy_monthly_cost_of(inp, mortgage, tax, maintenance),
                   rent_monthly_cost_of(inp, l))

\* One iteration of `for month in 1..=total_months`, for month = l.month + 1.
MonthBody(inp, l) ==
    MonthWithParts(inp, l, mortgage_this_month_of(inp, l.month + 1),
                   property_tax_this_month_of(inp, l), maintenance_this_month_of(inp, l))

\* Mutant of monthly_average: the total is divided by the years.
monthly_average_PerYear(inp, total) == FDiv(total, F(inp.time_horizon_years))

\* A running total as a monthly average: total / total_months as f64
\* (lines 294-295 and 334-344).
monthly_average(inp, total) == FDiv(total, F(total_months_of(inp)))

\* Mutant of difference_of: the operands are swapped.
difference_of_Swapped(buy_net_worth, rent_net_worth) == FSub(rent_net_worth, buy_net_worth)

\* `buy_breakdown.net_worth - rent_breakdown.net_worth` (line 347).
difference_of(buy_net_worth, rent_net_worth) == FSub(buy_net_worth, rent_net_worth)

\* Mutant of renter_investment_returns_of: the initial capital is counted as a
\* return.
renter_investment_returns_of_Gross(inp, l) ==
    FSub(l.renter_investment_balance, l.renter_monthly_contributions)

\* `renter_investment_balance - initial_investment -
\* renter_monthly_contributions` (line 288)
renter_investment_returns_of(inp, l) ==
    FSub(FSub(l.renter_investment_balance, initial_investment_of(inp)),
         l.renter_monthly_contributions)

\* `buyer_investment_balance - buyer_total_contributions` (line 291)
buyer_investment_returns_of(inp, l) ==
    FSub(l.buyer_investment_balance, l.buyer_total_contributions)

\* `loan_amount - remaining_mortgage` (line 284)
total_principal_paid_of(inp, remaining_mortgage) ==
    FSub(loan_amount_of(inp), remaining_mortgage)

\* Mutant of total_interest_paid_of: every payment counts as interest.
total_interest_paid_of_AllPayments(inp, l, remaining_mortgage) == l.total_mortgage_payments

\* `total_mortgage_payments - total_principal_paid` (line 285)
total_interest_paid_of(inp, l, remaining_mortgage) ==
    FSub(l.total_mortgage_payments, total_principal_paid_of(inp, remaining_mortgage))

\* The CalculationResult, from the locals the loop leaves and the values of
\* the final calculations.
Assemble(inp, l, remaining_mortgage, buy_net_worth, avg_buy_monthly, avg_rent_monthly) ==
    [buy_breakdown      |->
        [down_payment             |-> down_payment_of(inp),
         closing_costs            |-> closing_costs_of(inp),
         total_mortgage_payments  |-> l.total_mortgage_payments,
         total_interest_paid      |-> total_interest_paid_of(inp, l, remaining_mortgage),
         total_principal_paid     |-> total_principal_paid_of(inp, remaining_mortgage),
         total_property_tax       |-> l.total_property_tax,
         total_insurance          |-> l.total_home_insurance,
         total_hoa                |-> l.total_hoa,
         total_maintenance        |-> l.total_maintenance,
         selling_costs            |->
            FDiv(FMul(l.current_home_value, inp.selling_cost_percent), F(100)),
         final_home_value         |-> l.current_home_value,
         remaining_mortgage       |-> remaining_mortgage,
         net_worth                |-> buy_net_worth,
         monthly_savings_invested |-> l.buyer_total_contributions,
         investment_returns       |-> buyer_investment_returns_of(inp, l),
         investment_balance       |-> l.buyer_investment_balance],
     rent_breakdown     |->
        [initial_investment      |-> initial_investment_of(inp),
         total_rent_paid         |-> l.total_rent_paid,
         total_renters_insurance |-> l.total_renters_insurance,
         monthly_cost_savings    |-> l.renter_monthly_contributions,
         investment_returns      |-> renter_investment_returns_of(inp, l),
         final_investment_value  |-> l.renter_investment_balance,
         net_worth               |-> l.renter_investment_balance],
     monthly_comparison |->
        [avg_buy_monthly        |-> avg_buy_monthly,
         avg_rent_monthly       |-> avg_rent_monthly,
         avg_monthly_difference |-> FSub(avg_buy_monthly, avg_rent_monthly)],
     monthly_breakdown  |->
        [buy_mortgage     |-> monthly_average(inp, l.total_mortgage_payments),
         buy_property_tax |-> monthly_average(inp, l.total_property_tax),
         buy_insurance    |-> monthly_average(inp, l.total_home_insurance),
         buy_hoa          |-> monthly_average(inp, l.total_hoa),
         buy_maintenance  |-> monthly_average(inp, l.total_maintenance),
         buy_total        |-> avg_buy_monthly,
         rent_payment     |-> monthly_average(inp, l.total_rent_paid),
         rent_insurance   |-> monthly_average(inp, l.total_renters_insurance),
         rent_total       |-> avg_rent_monthly],
     difference         |-> difference_of(buy_net_worth, l.renter_investment_balance),
     yearly_snapshots   |-> l.yearly_snapshots]

\* The final calculations once the remaining mortgage is known.
FinalWithMortgage(inp, l, remaining_mortgage) ==
    Assemble(inp, l, remaining_mortgage,
             buy_net_worth_of(inp, l.current_home_value, remaining_mortgage,
                              l.buyer_investment_balance),
             monthly_average(inp, l.total_buy_monthly_costs),
             monthly_average(inp, l.total_rent_monthly_costs))

\* Mutant of final_months_paid_of: the whole term counts as paid.
final_months_paid_of_WholeTerm(inp) == inp.loan_term_years * 12

\* `total_months.min(inputs.loan_term_years * 12)` (line 276).
final_months_paid_of(inp) == months_paid_of(inp, total_months_of(inp))

\* The final calculations and the CalculationResult: lines 270-357.
Final(inp, l) ==
    FinalWithMortgage(inp, l,
        remaining_balance(loan_amount_of(inp), inp.mortgage_rate, inp.loan_term_years,
                          final_months_paid_of(inp)))

\* The month loop run to its end from locals l.
RECURSIVE RunLoop(_, _)
RunLoop(inp, l) ==
    IF l.month >= total_months_of(inp) THEN l
    ELSE RunLoop(inp, MonthBody(inp, l))

\* calculate(&inp) as one call.
calculate(inp) == Final(inp, RunLoop(inp, InitLocals(inp)))

(***************************************************************************)
(* Sensitivity sweep.                                                      *)
(***************************************************************************)
\* Mutant of modified_inputs: an unknown field name falls back to home_price.
modified_inputs_Fallback(inp, field, value) ==
    CASE field = "home_price"           -> [inp EXCEPT !.home_price = value]
      [] field = "down_payment_percent" -> [inp EXCEPT !.down_payment_percent = value]
      [] field = "mortgage_rate"        -> [inp EXCEPT !.mortgage_rate = value]
      [] field = "loan_term_years"      -> [inp EXCEPT !.loan_term_years = AsU32(value)]
      [] field = "property_tax_rate"    -> [inp EXCEPT !.property_tax_rate = value]
      [] field = "home_insurance"       -> [inp EXCEPT !.home_insurance = value]
      [] field = "hoa_monthly"          -> [inp EXCEPT !.hoa_monthly = value]
      [] field = "maintenance_percent"  -> [inp EXCEPT !.maintenance_percent = value]
      [] field = "home_appreciation"    -> [inp EXCEPT !.home_appreciation = value]
      [] field = "closing_cost_percent" -> [inp EXCEPT !.closing_cost_percent = value]
      [] field = "selling_cost_percent" -> [inp EXCEPT !.selling_cost_percent = value]
      [] field = "monthly_rent"         -> [inp EXCEPT !.monthly_rent = value]
      [] field = "rent_increase_rate"   -> [inp EXCEPT !.rent_increase_rate = value]
      [] field = "renters_insurance"    -> [inp EXCEPT !.renters_insurance = value]
      [] field = "investment_return"    -> [inp EXCEPT !.investment_return = value]
      [] field = "time_horizon_years"   -> [inp EXCEPT !.time_horizon_years = AsU32(value)]
      [] OTHER                          -> [inp EXCEPT !.home_price = value]

\* `modified`: the clone of the inputs with the named field overwritten
\* (lines 361-380).
modified_inputs(inp, field, value) ==
    CASE field = "home_price"           -> [inp EXCEPT !.home_price = value]
      [] field = "down_payment_percent" -> [inp EXCEPT !.down_payment_percent = value]
      [] field = "mortgage_rate"        -> [inp EXCEPT !.mortgage_rate = value]
      [] field = "loan_term_years"      -> [inp EXCEPT !.loan_term_years = AsU32(value)]
      [] field = "property_tax_rate"    -> [inp EXCEPT !.property_tax_rate = value]
      [] field = "home_insurance"       -> [inp EXCEPT !.home_insurance = value]
      [] field = "hoa_monthly"          -> [inp EXCEPT !.hoa_monthly = value]
      [] field = "maintenance_percent"  -> [inp EXCEPT !.maintenance_percent = value]
      [] field = "home_appreciation"    -> [inp EXCEPT !.home_appreciation = value]
      [] field = "closing_cost_percent" -> [inp EXCEPT !.closing_cost_percent = value]
      [] field = "selling_cost_percent" -> [inp EXCEPT !.selling_cost_percent = value]
      [] field = "monthly_rent"         -> [inp EXCEPT !.monthly_rent = value]
      [] field = "rent_increase_rate"   -> [inp EXCEPT !.rent_increase_rate = value]
      [] field = "renters_insurance"    -> [inp EXCEPT !.renters_insurance = value]
      [] field = "investment_return"    -> [inp EXCEPT !.investment_return = value]
      [] field = "time_horizon_years"   -> [inp EXCEPT !.time_horizon_years = AsU32(value)]
      [] OTHER                          -> inp

calculate_difference_for_value(inp, field, value) ==
    calculate(modified_inputs(inp, field, value)).difference

\* Mutant of caller_inputs_after: the override is written through the
\* reference into the caller's record.
caller_inputs_after_InPlace(inp, field, value) == modified_inputs(inp, field, value)

\* The caller's record once calculate_difference_for_value has returned: the
\* function borrows it immutably and writes the override into a clone
\* (line 361), so it is the record that was passed.
caller_inputs_after(inp, field, value) == inp

\* step_size of generate_sensitivity_data.
step_size_of(min, max, steps) == FDiv(FSub(max, min), F(steps))

\* The value of sample i.
sample_value(min, step_size, i) == FAdd(min, FMul(step_size, F(i)))

(***************************************************************************)
(* The bound editors of SliderInput (src/app.rs).  A text is the sequence  *)
(* of its characters.                                                      *)
(***************************************************************************)
\* The ASCII letters: lower case, and upper case in the same order.
Letters ==
    [lower |-> <<"a", "b", "c", "d", "e", "f", "g", "h", "i", "j", "k", "l", "m",
                 "n", "o", "p", "q", "r", "s", "t", "u", "v", "w", "x", "y", "z">>,
     upper |-> <<"A", "B", "C", "D", "E", "F", "G", "H", "I", "J", "K", "L", "M",
                 "N", "O", "P", "Q", "R", "S", "T", "U", "V", "W", "X", "Y", "Z">>]

Digits == <<"0", "1", "2", "3", "4", "5", "6", "7", "8", "9">>

DigitOf(c) == (CHOOSE i \in 1..10 : Digits[i] = c) - 1

RECURSIVE Pow10(_)
Pow10(n) == IF n <= 0 THEN 1 ELSE 10 * Pow10(n - 1)

\* str::to_uppercase, on ASCII.
UpperChar(c) ==
    IF \E i \in 1..26 : Letters.lower[i] = c
    THEN Letters.upper[CHOOSE i \in 1..26 : Letters.lower[i] = c]
    ELSE c

to_uppercase(t) == IF Len(t) = 0 THEN << >> ELSE [i \in 1..Len(t) |-> UpperChar(t[i])]

\* str::trim_end_matches(c)
RECURSIVE trim_end_matches(_, _)
trim_end_matches(t, c) ==
    IF Len(t) > 0 /\ t[Len(t)] = c THEN trim_end_matches(SubSeq(t, 1, Len(t) - 1), c) ELSE t

\* str::trim, on texts whose only whitespace is the space.
RECURSIVE trim(_)
trim(t) == IF Len(t) > 0 /\ t[1] = " " THEN trim(Tail(t)) ELSE trim_end_matches(t, " ")

\* A character that replace(",", "").replace("$", "") keeps.
KeptChar(c) == c \notin {",", "$"}

\* str::ends_with(c)
ends_with(t, c) == Len(t) > 0 /\ t[Len(t)] = c

\* The position of the first c in t, 0 when there is none.
IndexOf(t, c) ==
    IF \E i \in 1..Len(t) : t[i] = c
    THEN CHOOSE i \in 1..Len(t) : t[i] = c /\ \A j \in 1..(i - 1) : t[j] # c
    ELSE 0

AllDigits(t) == \A i \in 1..Len(t) : \E d \in 1..10 : Digits[d] = t[i]

\* The integer a text of digits spells.
RECURSIVE DigitsValue(_)
DigitsValue(t) ==
    IF Len(t) = 0 THEN 0
    ELSE 10 * DigitsValue(SubSeq(t, 1, Len(t) - 1)) + DigitOf(t[Len(t)])

RECURSIVE StripZeros(_)
StripZeros(t) == IF Len(t) > 0 /\ t[1] = "0" THEN StripZeros(Tail(t)) ELSE t

\* The digits of a decimal the conversion keeps as an integer; the digits
\* after them only say whether the value lies above it.
MaxDigits == 9

\* x * 10^k (k >= 0) computed at ExtBits bits of mantissa, then rounded to
\* the f64 format.
RECURSIVE TimesTenExt(_, _)
TimesTenExt(x, k) ==
    IF k = 0 THEN Round(1, x.m, x.e, FALSE)
    ELSE TimesTenExt(MulExt(x, RoundBits(ExtBits, 1, 10, 0, FALSE)), k - 1)

\* The f64 nearest to n * 10^k, n > 0 an integer with a nonzero tail below it
\* when sticky.  The conversion is exact while the scaled integer fits the
\* model's integers (every text the model types or formats but the saturated
\* i64 does); beyond, it runs at ExtBits bits.
DecimalScaled(n, k, sticky) ==
    IF n = 0 THEN Zero
    ELSE IF k >= 0 /\ BitLen(n) + 4 * k <= 30 THEN Round(1, n * Pow10(k), 0, sticky)
    ELSE IF k >= 0 THEN TimesTenExt(RoundBits(ExtBits, 1, n, 0, sticky), k)
    ELSE Q(IF -k <= 6 THEN n ELSE n \div Pow10(-k - 6), Pow10(IF -k <= 6 THEN -k ELSE 6))

\* The digits kept as an integer, the digits dropped after them, the scale.
DecimalOfKept(kept, dropped, scale) ==
    DecimalScaled(DigitsValue(kept), scale + Len(dropped),
                  \E i \in 1..Len(dropped) : dropped[i] # "0")

\* The f64 nearest to sig * 10^scale, sig a text of digits without leading
\* zeros.
DecimalToF64(sig, scale) ==
    DecimalOfKept(IF Len(sig) <= MaxDigits THEN sig ELSE SubSeq(sig, 1, MaxDigits),
                  SubSeq(sig, MaxDigits + 1, Len(sig)), scale)

Err == [ok |-> FALSE, v |-> NaN]

Ok(v) == [ok |-> TRUE, v |-> v]

\* A decimal number from its integer digits, its fraction digits and its
\* exponent (sign, digits, and whether there is one).
ParseFields(ip, fp, hasExp, eNeg, eDig) ==
    IF /\ AllDigits(ip) /\ AllDigits(fp) /\ Len(ip) + Len(fp) >= 1
       /\ ~hasExp \/ (Len(eDig) >= 1 /\ AllDigits(eDig))
    THEN Ok(DecimalToF64(StripZeros(ip \o fp),
                         (IF ~hasExp THEN 0
                          ELSE IF eNeg THEN -DigitsValue(eDig) ELSE DigitsValue(eDig))
                            - Len(fp)))
    ELSE Err

\* The mantissa split at its point (dot = 0: no point).
ParseMantissa(mant, dot, hasExp, eNeg, eDig) ==
    ParseFields(IF dot = 0 THEN mant ELSE SubSeq(mant, 1, dot - 1),
                IF dot = 0 THEN << >> ELSE SubSeq(mant, dot + 1, Len(mant)),
                hasExp, eNeg, eDig)

\* The exponent split into sign and digits.
ParseExponent(mant, hasExp, expo) ==
    ParseMantissa(mant, IndexOf(mant, "."), hasExp,
                  Len(expo) > 0 /\ expo[1] = "-",
                  IF Len(expo) > 0 /\ expo[1] \in {"+", "-"} THEN Tail(expo) ELSE expo)

\* The number split at its E (ePos = 0: no exponent).
ParseAtE(up, ePos) ==
    ParseExponent(IF ePos = 0 THEN up ELSE SubSeq(up, 1, ePos - 1), ePos # 0,
                  IF ePos = 0 THEN << >> ELSE SubSeq(up, ePos + 1, Len(up)))

\* A decimal number without its sign, in upper case: digits, an optional
\* point, an optional exponent.
ParseNumber(up) == ParseAtE(up, IndexOf(up, "E"))

\* The Ok value times a factor, an Err as it is (Result::map); the factor 1
\* stands for no map at all.
MapTimes(r, factor) == IF r.ok /\ factor # 1 THEN Ok(FMul(r.v, F(factor))) ELSE r

ParseBody(neg, up) ==
    IF up \in {<<"I", "N", "F">>, <<"I", "N", "F", "I", "N", "I", "T", "Y">>}
    THEN Ok(Inf(IF neg THEN -1 ELSE 1))
    ELSE IF up = <<"N", "A", "N">> THEN Ok(NaN)
    ELSE MapTimes(ParseNumber(up), IF neg THEN -1 ELSE 1)

\* str::parse::<f64>: an optional sign, then inf, infinity or nan in any
\* case, or a decimal number.
ParseF64(t) ==
    ParseBody(Len(t) > 0 /\ t[1] = "-",
              to_uppercase(IF Len(t) > 0 /\ t[1] \in {"+", "-"} THEN Tail(t) ELSE t))

\* parse_bound_value once the input is trimmed, in upper case and without
\* commas and dollar signs (lines 380-389).
ParseTrimmed(trimmed) ==
    MapTimes(ParseF64(IF ends_with(trimmed, "K") THEN trim(trim_end_matches(trimmed, "K"))
                      ELSE IF ends_with(trimmed, "M") THEN trim(trim_end_matches(trimmed, "M"))
                      ELSE trimmed),
             IF ends_with(trimmed, "K") THEN 1000
             ELSE IF ends_with(trimmed, "M") THEN 1000000
             ELSE 1)

\* parse_bound_value (lines 376-390).
parse_bound_value(input) ==
    ParseTrimmed(SelectSeq(to_uppercase(trim(input)), KeptChar))

\* The decimal digits of n >= 0.
RECURSIVE ItoA(_)
ItoA(n) ==
    IF n < 10 THEN <<Digits[n + 1]>> ELSE Append(ItoA(n \div 10), Digits[(n % 10) + 1])

\* The decimal digits of 2 * t + carry, for a text t of digits.
RECURSIVE DoubledDigits(_, _)
DoubledDigits(t, carry) ==
    IF Len(t) = 0 THEN (IF carry = 0 THEN << >> ELSE <<Digits[carry + 1]>>)
    ELSE Append(DoubledDigits(SubSeq(t, 1, Len(t) - 1),
                              (2 * DigitOf(t[Len(t)]) + carry) \div 10),
                Digits[((2 * DigitOf(t[Len(t)]) + carry) % 10) + 1])

\* The decimal digits of n * 2^e, for the digits t of n >= 0 and e >= 0.
RECURSIVE DigitsTimesPow2(_, _)
DigitsTimesPow2(t, e) == IF e = 0 THEN t ELSE DigitsTimesPow2(DoubledDigits(t, 0), e - 1)

\* i64::MAX; i64::MIN is the same digits but the last, an 8.
I64MaxText ==
    <<"9", "2", "2", "3", "3", "7", "2", "0", "3", "6", "8", "5", "4", "7", "7", "5",
      "8", "0", "7">>

\* The sign of a negative value, before its digits.
MinusIf(neg) == IF neg THEN <<"-">> ELSE << >>

\* format!("{}", value as i64): truncation toward zero, 0 for NaN, the ends of
\* i64 for the infinities and beyond.
FormatAsI64(a) ==
    IF IsNaN(a) THEN <<"0">>
    ELSE IF IsInf(a) \/ BitLen(Abs(a.m)) + a.e > 63
    THEN (IF a.m > 0 THEN I64MaxText ELSE <<"-">> \o SubSeq(I64MaxText, 1, 18) \o <<"8">>)
    ELSE IF a.e >= 0 THEN MinusIf(a.m < 0) \o DigitsTimesPow2(ItoA(Abs(a.m)), a.e)
    ELSE IF BitLen(Abs(a.m)) + a.e <= 0 THEN <<"0">>
    ELSE MinusIf(a.m < 0) \o ItoA(Abs(a.m) \div Pow2(-a.e))

\* num / den rounded to the nearest integer, ties to even.
RoundedQuotient(num, den) ==
    IF 2 * (num % den) > den \/ (2 * (num % den) = den /\ (num \div den) % 2 = 1)
    THEN (num \div den) + 1
    ELSE num \div den

\* The text of n / 10^d with d decimals.
FixedDigits(neg, n, d) ==
    MinusIf(neg) \o ItoA(n \div Pow10(d)) \o <<".">>
        \o [i \in 1..d |-> Digits[((n \div Pow10(d - i)) % 10) + 1]]

\* format!("{:.d}", value): d decimals, the exact value rounded to nearest,
\* ties to even.
FormatFixed(a, d) ==
    IF IsNaN(a) THEN <<"N", "a", "N">>
    ELSE IF IsInf(a) THEN (IF a.m > 0 THEN <<"i", "n", "f">> ELSE <<"-", "i", "n", "f">>)
    ELSE IF a.e >= 0
    THEN MinusIf(a.m < 0) \o DigitsTimesPow2(ItoA(Abs(a.m)), a.e)
            \o <<".">> \o [i \in 1..d |-> "0"]
    ELSE FixedDigits(a.m < 0,
                     IF -a.e > MantBits + 12 THEN 0
                     ELSE RoundedQuotient(Abs(a.m) * Pow10(d), Pow2(-a.e)),
                     d)

\* format_bound_value (lines 353-361).
format_bound_value(value, step) ==
    IF FGe(step, F(1)) THEN FormatAsI64(value)
    ELSE FormatFixed(value, IF FGe(step, Q(1, 10)) THEN 1 ELSE 3)

\* Mutant of committed_min: the new minimum is not compared with the maximum.
committed_min_Unchecked(s, r) == IF r.ok THEN r.v ELSE s.current_min

\* current_min after a commit of the parse result r (lines 508-512).
committed_min(s, r) == IF r.ok /\ FLt(r.v, s.current_max) THEN r.v ELSE s.current_min

\* current_max after a commit of the parse result r (lines 574-578).
committed_max(s, r) == IF r.ok /\ FLt(s.current_min, r.v) THEN r.v ELSE s.current_max

\* The effect that clamps the value when a bound changes (lines 478-487).
Clamped(value, min, max) ==
    IF FLt(value, min) THEN min ELSE IF FLt(max, value) THEN max ELSE value

\* The sliders of the page the model follows: min, max, step and the
\* signal's starting value (down payment percent, home appreciation,
\* mortgage rate).
SliderProps ==
    { [min |-> F(0), max |-> F(100), step |-> F(1), value |-> F(20)],
      [min |-> F(-5), max |-> F(10), step |-> Q(1, 2), value |-> F(3)],
      [min |-> F(0), max |-> F(15), step |-> Q(1, 8), value |-> Q(13, 2)] }

\* The signals SliderInput creates (lines 466-471).
NewSlider(p) ==
    [current_min     |-> p.min,
     current_max     |-> p.max,
     editing_min     |-> FALSE,
     editing_max     |-> FALSE,
     min_input_value |-> format_bound_value(p.min, p.step),
     max_input_value |-> format_bound_value(p.max, p.step),
     step            |-> p.step,
     value           |-> p.value,
     event           |-> "created",
     rejected        |-> FALSE]

\* What a user types into a bound editor.
TypedTexts ==
    { << >>,
      <<"a", "b", "c">>,
      <<"5", "0">>,
      <<"7", ".", "5">>,
      <<"-", "2">>,
      <<"1", "k">>,
      <<"$", "1", ",", "0", "0", "0">>,
      <<" ", "2", "0", " ">>,
      <<"n", "a", "n">>,
      <<"i", "n", "f">> }

(***************************************************************************)
(* The inputs the model draws.                                             *)
(***************************************************************************)
BaseInputs ==
    [home_price           |-> F(240),
     down_payment_percent |-> F(20),
     mortgage_rate        |-> F(0),
     loan_term_years      |-> 1,
     property_tax_rate    |-> Q(12, 10),
     home_insurance       |-> Q(3, 2),
     hoa_monthly          |-> F(0),
     maintenance_percent  |-> F(1),
     home_appreciation    |-> F(0),
     closing_cost_percent |-> F(3),
     selling_cost_percent |-> F(6),
     monthly_rent         |-> F(2),
     rent_increase_rate   |-> F(3),
     renters_insurance    |-> Q(2, 10),
     investment_return    |-> F(0),
     time_horizon_years   |-> 1]

Years == 1..MaxYears

InputSet ==
    { [BaseInputs EXCEPT !.mortgage_rate = r, !.loan_term_years = t,
                         !.time_horizon_years = h, !.home_appreciation = a,
                         !.monthly_rent = rent, !.investment_return = ir] :
        r \in {F(0), Q(13, 2)}, t \in Years, h \in Years, a \in {F(0), F(6)},
        rent \in {F(2), F(12)}, ir \in {F(0), F(7)} }

\* Inputs::default() with the amounts in thousands (home price 400, rent 2,
\* insurance 1.5, renter's insurance 0.2) and the years within MaxYears.
DefaultInputs ==
    [BaseInputs EXCEPT !.home_price = F(400), !.mortgage_rate = Q(13, 2),
                       !.loan_term_years = MaxYears, !.home_appreciation = F(3),
                       !.investment_return = F(7)]

\* A home bought outright whose only cost is an HOA fee equal to the rent,
\* which never rises: both sides cost the same in every month.
EqualCostInputs ==
    [BaseInputs EXCEPT !.home_price = F(256), !.down_payment_percent = F(100),
                       !.property_tax_rate = F(0),
                       !.home_insurance = F(0), !.hoa_monthly = F(2),
                       !.maintenance_percent = F(0), !.monthly_rent = F(2),
                       !.rent_increase_rate = F(0), !.renters_insurance = F(0),
                       !.investment_return = F(7), !.time_horizon_years = MaxYears]

\* A loan paid off after the first year of the longest horizon, on an
\* appreciating home with an HOA fee.
PayoffInputs ==
    [BaseInputs EXCEPT !.home_price = F(400), !.mortgage_rate = Q(13, 2),
                       !.hoa_monthly = Q(1, 10), !.home_appreciation = F(6),
                       !.time_horizon_years = MaxYears]

\* A rent that is raised twice: the horizon is a year beyond MaxYears.
RisingRentInputs ==
    [BaseInputs EXCEPT !.monthly_rent = F(3), !.rent_increase_rate = F(4),
                       !.time_horizon_years = MaxYears + 1]

\* An interest-free loan of half the price, paid off after the first year of
\* the longest horizon.
InterestFreeInputs ==
    [BaseInputs EXCEPT !.down_payment_percent = F(50), !.time_horizon_years = MaxYears]

\* Inputs drawn besides InputSet: one record for each scenario of interest.
ScenarioInputs ==
    { DefaultInputs, EqualCostInputs, PayoffInputs, RisingRentInputs, InterestFreeInputs }

\* Inputs with no horizon, no loan term or neither, with and without a loan.
DegenerateInputs ==
    { i \in { [BaseInputs EXCEPT !.mortgage_rate = r, !.loan_term_years = t,
                                 !.time_horizon_years = h, !.down_payment_percent = d] :
                r \in {F(0), Q(13, 2)}, d \in {F(20), F(100)},
                t \in 0..1, h \in 0..MaxYears } :
        i.loan_term_years = 0 \/ i.time_horizon_years = 0 }

\* Inputs without a rent: the field is NaN.
NoRentInputs == [BaseInputs EXCEPT !.monthly_rent = NaN, !.time_horizon_years = MaxYears]

\* Any inputs: the ordinary ones, the degenerate ones and the ones with a NaN.
AnyInputs == InputSet \cup ScenarioInputs \cup DegenerateInputs \cup {NoRentInputs}

\* Arguments of the amortization helpers.
Principals == {F(0), F(100), F(126), F(192)}

Rates == {F(0), Q(13, 2)}

TermYears == 1..MaxTermYears

MonthsPaid == 0..(MaxTermYears * 12 + 12)

\* Arguments of the sweep.
FieldNames ==
    {"home_price", "down_payment_percent", "mortgage_rate", "loan_term_years",
     "property_tax_rate", "home_insurance", "hoa_monthly", "maintenance_percent",
     "home_appreciation", "closing_cost_percent", "selling_cost_percent",
     "monthly_rent", "rent_increase_rate", "renters_insurance", "investment_return",
     "time_horizon_years"}

SweepFields == FieldNames \cup {"home_value", ""}

SweepInputs ==
    { BaseInputs,
      [BaseInputs EXCEPT !.mortgage_rate = Q(13, 2), !.loan_term_years = MaxYears] }

SweepRanges == { <<F(1), F(2)>>, <<F(0), Q(29, 16)>> }

SweepSteps == {0, 1, 3, MaxSteps}

(***************************************************************************)
(* Actions.                                                                *)
(***************************************************************************)
\* What result, am and sw hold while no call owns them: a record, so that
\* they can be compared with the records the calls put there.
Absent == [absent |-> TRUE]

InitEngine ==
    /\ pc = "idle"
    /\ seen = << >>
    /\ inputs = BaseInputs
    /\ loc = InitLocals(BaseInputs)
    /\ result = Absent
    /\ am = Absent
    /\ sw = Absent

Init ==
    /\ InitEngine
    /\ slider = NewSlider([min |-> F(0), max |-> F(100), step |-> F(1), value |-> F(20)])

\* calculate(&i) is called: lines 153-191.
Calculate(i) ==
    /\ pc = "idle"
    /\ pc' = "loop"
    /\ inputs' = i
    /\ loc' = InitLocals(i)
    /\ UNCHANGED <<result, am, sw, seen, slider>>

\* One iteration of the month loop: lines 193-268.
MonthStep ==
    /\ pc = "loop"
    /\ loc.month < total_months_of(inputs)
    /\ loc' = MonthBody(inputs, loc)
    /\ UNCHANGED <<pc, inputs, result, am, sw, seen, slider>>

\* The loop is over: the final calculations, lines 270-357.
Finish ==
    /\ pc = "loop"
    /\ loc.month >= total_months_of(inputs)
    /\ result' = Final(inputs, loc)
    /\ pc' = "done"
    /\ UNCHANGED <<inputs, loc, am, sw, seen, slider>>

\* Back in the caller: the frames of the call are gone.
BackToIdle ==
    /\ pc' = "idle"
    /\ inputs' = BaseInputs
    /\ loc' = InitLocals(BaseInputs)
    /\ result' = Absent
    /\ am' = Absent
    /\ sw' = Absent
    /\ UNCHANGED slider

\* The caller takes the result.
Return ==
    /\ pc = "done"
    /\ BackToIdle
    /\ UNCHANGED seen

\* As Return, and the first call to return is remembered.
ReturnSeen ==
    /\ pc = "done"
    /\ BackToIdle
    /\ seen' = IF seen = << >>
               THEN <<[inputs |-> inputs, result |-> result,
                       calcs |-> FALSE, sweeps |-> FALSE]>>
               ELSE <<[seen[1] EXCEPT !.calcs = TRUE]>>

\* calculate_monthly_payment(principal, annual_rate, years) is called and returns.
MonthlyPayment(principal, annual_rate, years) ==
    /\ pc = "idle"
    /\ pc' = "amort"
    /\ am' = [fn |-> "calculate_monthly_payment", principal |-> principal,
              annual_rate |-> annual_rate, years |-> years, months_paid |-> 0,
              ret |-> calculate_monthly_payment(principal, annual_rate, years)]
    /\ UNCHANGED <<inputs, loc, result, sw, seen, slider>>

\* remaining_balance(principal, annual_rate, years, months_paid) is called and returns.
RemainingBalance(principal, annual_rate, years, months_paid) ==
    /\ pc = "idle"
    /\ pc' = "amort"
    /\ am' = [fn |-> "remaining_balance", principal |-> principal,
              annual_rate |-> annual_rate, years |-> years, months_paid |-> months_paid,
              ret |-> remaining_balance(principal, annual_rate, years, months_paid)]
    /\ UNCHANGED <<inputs, loc, result, sw, seen, slider>>

AmortReturn ==
    /\ pc = "amort"
    /\ BackToIdle
    /\ UNCHANGED seen

\* generate_sensitivity_data(&i, field, min, max, steps) is called: line 387.
GenerateSensitivityData(i, field, min, max, steps) ==
    /\ pc = "idle"
    /\ pc' = "sweep"
    /\ inputs' = i
    /\ sw' = [field |-> field, min |-> min, max |-> max, steps |-> steps,
              step_size |-> step_size_of(min, max, steps), i |-> 0, out |-> << >>]
    /\ UNCHANGED <<loc, result, am, seen, slider>>

\* The closure of the map runs for the next i of 0..=steps: lines 389-393.
SweepSample ==
    /\ pc = "sweep"
    /\ sw.i <= sw.steps
    /\ LET value == sample_value(sw.min, sw.step_size, sw.i)
           diff  == calculate_difference_for_value(inputs, sw.field, value)
       IN /\ sw' = [sw EXCEPT !.i = sw.i + 1, !.out = Append(sw.out, <<value, diff>>)]
          /\ inputs' = caller_inputs_after(inputs, sw.field, value)
    /\ UNCHANGED <<pc, loc, result, am, seen, slider>>

\* The range is exhausted: collect() returns the vector.
SweepCollect ==
    /\ pc = "sweep"
    /\ sw.i > sw.steps
    /\ pc' = "swept"
    /\ UNCHANGED <<inputs, loc, result, am, sw, seen, slider>>

SweepReturn ==
    /\ pc = "swept"
    /\ BackToIdle
    /\ UNCHANGED seen

\* As SweepReturn, and a sweep that follows the first calculate call is
\* remembered.
SweepReturnSeen ==
    /\ pc = "swept"
    /\ BackToIdle
    /\ seen' = IF seen = << >> THEN seen ELSE <<[seen[1] EXCEPT !.sweeps = TRUE]>>

Next ==
    \/ \E i \in InputSet \cup ScenarioInputs : Calculate(i)
    \/ MonthStep
    \/ Finish
    \/ Return
    \/ \E p \in Principals, r \in Rates, y \in TermYears : MonthlyPayment(p, r, y)
    \/ \E p \in Principals, r \in Rates, y \in TermYears, m \in MonthsPaid :
          RemainingBalance(p, r, y, m)
    \/ AmortReturn
    \/ \E i \in SweepInputs, f \in SweepFields, mm \in SweepRanges, n \in SweepSteps :
          GenerateSensitivityData(i, f, mm[1], mm[2], n)
    \/ SweepSample
    \/ SweepCollect
    \/ SweepReturn

Spec == Init /\ [][Next]_vars

\* The calls of a session whose first result is kept for comparison.
NextDet ==
    \/ \E i \in SweepInputs : Calculate(i)
    \/ MonthStep
    \/ Finish
    \/ ReturnSeen
    \/ \E i \in SweepInputs, f \in {"home_price", "time_horizon_years"} :
          GenerateSensitivityData(i, f, F(1), F(2), 1)
    \/ SweepSample
    \/ SweepCollect
    \/ SweepReturnSeen

SpecDet == Init /\ [][NextDet]_vars

\* The calls on degenerate inputs: calculate on DegenerateInputs, and sweeps
\* of the two integer fields over a range from -1 to 1, whose samples are
\* cast to 0, 0 and 1 years.
NextDegenerate ==
    \/ \E i \in DegenerateInputs : Calculate(i)
    \/ MonthStep
    \/ Finish
    \/ Return
    \/ \E i \in SweepInputs, f \in {"loan_term_years", "time_horizon_years"} :
          GenerateSensitivityData(i, f, F(-1), F(1), 2)
    \/ SweepSample
    \/ SweepCollect
    \/ SweepReturn

\* calculate called on any inputs.
NextAny ==
    \/ \E i \in AnyInputs : Calculate(i)
    \/ MonthStep
    \/ Finish
    \/ Return

SpecAny == Init /\ [][NextAny]_vars

(***************************************************************************)
(* The events of one SliderInput.                                          *)
(***************************************************************************)
\* on:click of the minimum's label (lines 537-540).
ClickMin ==
    /\ ~slider.editing_min
    /\ slider' = [slider EXCEPT
                    !.min_input_value = format_bound_value(slider.current_min, slider.step),
                    !.editing_min = TRUE, !.event = "click_min", !.rejected = FALSE]
    /\ UNCHANGED <<pc, inputs, loc, result, am, sw, seen>>

\* on:input of the minimum's editor (lines 504-506).
InputMin(text) ==
    /\ slider.editing_min
    /\ slider' = [slider EXCEPT !.min_input_value = text, !.event = "input_min",
                                !.rejected = FALSE]
    /\ UNCHANGED <<pc, inputs, loc, result, am, sw, seen>>

\* The commit of the minimum's editor: the text is parsed, the bound is set
\* when the value is below the maximum, the text is reset and the editor is
\* closed (lines 508-514 and 518-524); the effect clamps the value.
CommitMinTo(event, r) ==
    slider' = [slider EXCEPT
                 !.current_min = committed_min(slider, r),
                 !.min_input_value = format_bound_value(committed_min(slider, r), slider.step),
                 !.editing_min = FALSE,
                 !.value = Clamped(slider.value, committed_min(slider, r), slider.current_max),
                 !.event = event,
                 !.rejected = ~(r.ok /\ FLt(r.v, slider.current_max))]

CommitMin(event) == CommitMinTo(event, parse_bound_value(slider.min_input_value))

\* Escape in the minimum's editor (lines 525-528).
CancelMin ==
    slider' = [slider EXCEPT
                 !.min_input_value = format_bound_value(slider.current_min, slider.step),
                 !.editing_min = FALSE, !.event = "escape_min", !.rejected = FALSE]

\* on:blur of the minimum's editor (lines 507-515).
BlurMin ==
    /\ slider.editing_min
    /\ CommitMin("blur_min")
    /\ UNCHANGED <<pc, inputs, loc, result, am, sw, seen>>

\* on:keydown of the minimum's editor (lines 516-529).
KeydownMin(key) ==
    /\ slider.editing_min
    /\ IF key = "Enter" THEN CommitMin("enter_min")
       ELSE IF key = "Escape" THEN CancelMin
       ELSE UNCHANGED slider
    /\ UNCHANGED <<pc, inputs, loc, result, am, sw, seen>>

\* on:click of the maximum's label (lines 603-606).
ClickMax ==
    /\ ~slider.editing_max
    /\ slider' = [slider EXCEPT
                    !.max_input_value = format_bound_value(slider.current_max, slider.step),
                    !.editing_max = TRUE, !.event = "click_max", !.rejected = FALSE]
    /\ UNCHANGED <<pc, inputs, loc, result, am, sw, seen>>

\* on:input of the maximum's editor (lines 570-572).
InputMax(text) ==
    /\ slider.editing_max
    /\ slider' = [slider EXCEPT !.max_input_value = text, !.event = "input_max",
                                !.rejected = FALSE]
    /\ UNCHANGED <<pc, inputs, loc, result, am, sw, seen>>

\* The commit of the maximum's editor (lines 574-580 and 584-590).
CommitMaxTo(event, r) ==
    slider' = [slider EXCEPT
                 !.current_max = committed_max(slider, r),
                 !.max_input_value = format_bound_value(committed_max(slider, r), slider.step),
                 !.editing_max = FALSE,
                 !.value = Clamped(slider.value, slider.current_min, committed_max(slider, r)),
                 !.event = event,
                 !.rejected = ~(r.ok /\ FLt(slider.current_min, r.v))]

CommitMax(event) == CommitMaxTo(event, parse_bound_value(slider.max_input_value))

\* Escape in the maximum's editor (lines 591-594).
CancelMax ==
    slider' = [slider EXCEPT
                 !.max_input_value = format_bound_value(slider.current_max, slider.step),
                 !.editing_max = FALSE, !.event = "escape_max", !.rejected = FALSE]

\* on:blur of the maximum's editor (lines 573-581).
BlurMax ==
    /\ slider.editing_max
    /\ CommitMax("blur_max")
    /\ UNCHANGED <<pc, inputs, loc, result, am, sw, seen>>

\* on:keydown of the maximum's editor (lines 582-595).
KeydownMax(key) ==
    /\ slider.editing_max
    /\ IF key = "Enter" THEN CommitMax("enter_max")
       ELSE IF key = "Escape" THEN CancelMax
       ELSE UNCHANGED slider
    /\ UNCHANGED <<pc, inputs, loc, result, am, sw, seen>>

\* A page whose slider is one of SliderProps, with no call of the engine
\* running.
InitSlider ==
    /\ InitEngine
    /\ slider \in {NewSlider(p) : p \in SliderProps}

NextSlider ==
    \/ ClickMin
    \/ \E text \in TypedTexts : InputMin(text)
    \/ BlurMin
    \/ \E key \in {"Enter", "Escape", "Tab"} : KeydownMin(key)
    \/ ClickMax
    \/ \E text \in TypedTexts : InputMax(text)
    \/ BlurMax
    \/ \E key \in {"Enter", "Escape", "Tab"} : KeydownMax(key)

SpecSlider == InitSlider /\ [][NextSlider]_vars

\* The samples the running sweep has taken (-1 outside a sweep).
SamplesTaken == IF pc \in {"sweep", "swept"} THEN sw.i ELSE -1

\* The calls run on once made: the program is sequential, so a loop that can
\* take its next iteration takes it, and a map that can produce its next
\* sample produces it.  This is weak fairness of MonthStep, Finish,
\* SweepSample and SweepCollect, each written out as "infinitely often not
\* enabled, or infinitely often taken" with the action's guard as its
\* enabling condition.
Fairness ==
    /\ \/ []<>(~(pc = "loop" /\ loc.month < total_months_of(inputs)))
       \/ []<><<MonthStep>>_loc
    /\ \/ []<>(~(pc = "loop" /\ loc.month >= total_months_of(inputs)))
       \/ []<><<Finish>>_pc
    /\ \/ []<>(~(pc = "sweep" /\ sw.i <= sw.steps))
       \/ []<><<SweepSample>>_SamplesTaken
    /\ \/ []<>(~(pc = "sweep" /\ sw.i > sw.steps))
       \/ []<><<SweepCollect>>_pc

\* Degenerate calls, run on once made.
SpecDegenerate == Init /\ [][NextDegenerate]_vars /\ Fairness

SpecLive == Init /\ [][Next]_vars /\ Fairness

(***************************************************************************)
(* Properties.                                                             *)
(***************************************************************************)
\* |a - b| <= k * ulp(b) for finite a and b, b nonzero: the distance of a
\* from b is at most k units in the last place of b.
WithinUlps(a, b, k) ==
    /\ IsFin(a) /\ IsFin(b) /\ b.m # 0
    /\ IF a.m = 0 THEN Abs(b.m) <= k
       ELSE /\ Abs(a.e - b.e) <= 8
            /\ LET e0 == IF a.e < b.e THEN a.e ELSE b.e
               IN Abs(a.m * Pow2(a.e - e0) - b.m * Pow2(b.e - e0)) <= k * Pow2(b.e - e0)

\* The last (value, difference) pair a sweep has produced.
LastSample == sw.out[Len(sw.out)]

\* C1: whenever calculate has returned, the difference it reports is the buy
\* scenario's net worth minus the rent scenario's net worth, as the two
\* breakdowns of the same result report them.
DifferenceIsBuyMinusRent ==
    pc = "done" =>
        FEq(result.difference,
            FSub(result.buy_breakdown.net_worth, result.rent_breakdown.net_worth))

\* A call has returned a difference that is finite and not zero.
DifferenceReported ==
    /\ pc = "done"
    /\ IsFin(result.difference)
    /\ ~IsZero(result.difference)
    /\ result.buy_breakdown.net_worth # result.rent_breakdown.net_worth

\* The years 1, 2, ... of a snapshot vector, in order.
YearsInOrder(snapshots) == \A i \in 1..Len(snapshots) : snapshots[i].year = i

\* C2: inside the loop there is one snapshot per completed twelve months (so
\* one is appended at months 12, 24, ... and at no other month), the i-th
\* holding year i; the result holds exactly time_horizon_years of them.
SnapshotsOnePerYear ==
    /\ pc = "loop" =>
          /\ Len(loc.yearly_snapshots) = loc.month \div 12
          /\ YearsInOrder(loc.yearly_snapshots)
    /\ pc = "done" =>
          /\ Len(result.yearly_snapshots) = inputs.time_horizon_years
          /\ YearsInOrder(result.yearly_snapshots)

\* A run over the longest horizon has returned its snapshots.
SnapshotsReturned ==
    /\ pc = "done"
    /\ inputs.time_horizon_years = MaxYears
    /\ Len(result.yearly_snapshots) = MaxYears
    /\ result.yearly_snapshots[MaxYears].year = MaxYears

\* Cost plus deposit of each side in the month the loop has just run.
BuySideOutlay == FAdd(loc.buy_monthly_cost, loc.buyer_savings)

RentSideOutlay == FAdd(loc.rent_monthly_cost, loc.renter_savings)

\* Cost plus deposits of each side over the months run so far.
BuySideTotal == FAdd(loc.total_buy_monthly_costs, loc.buyer_total_contributions)

RentSideTotal == FAdd(loc.total_rent_monthly_costs, loc.renter_monthly_contributions)

\* C3, as the spec states it: in every simulated month buy cost plus the
\* buyer's deposit equals rent cost plus the renter's deposit, and so do the
\* totals over the months run.
FixedBudgetExact ==
    (pc = "loop" /\ loc.month >= 1) =>
        /\ BuySideOutlay = RentSideOutlay
        /\ BuySideTotal = RentSideTotal

\* C3, amended: the two sides agree up to rounding.  In a month the two
\* outlays are within one unit in the last place of each other; after m
\* months the two totals are within 2m + 1 units in the last place.
FixedBudgetUpToRounding ==
    (pc = "loop" /\ loc.month >= 1) =>
        /\ WithinUlps(BuySideOutlay, RentSideOutlay, 1)
        /\ WithinUlps(RentSideOutlay, BuySideOutlay, 1)
        /\ WithinUlps(BuySideTotal, RentSideTotal, 2 * loc.month + 1)

\* A month after the first in which a deposit was made and neither the
\* month's two outlays nor the two totals are equal.
FixedBudgetRounded ==
    /\ pc = "loop"
    /\ loc.month >= 2
    /\ ~IsZero(loc.renter_savings)
    /\ BuySideOutlay # RentSideOutlay
    /\ BuySideTotal # RentSideTotal

\* total / total_months, for the inputs of the call that has returned.
PerMonth(total) == FDiv(total, F(inputs.time_horizon_years * 12))

\* C4: every monthly figure of the result is the matching total divided by
\* total_months: the average costs of the comparison and the components and
\* totals of the breakdown.
MonthlyFiguresAreAverages ==
    pc = "done" =>
        /\ result.monthly_comparison.avg_buy_monthly = PerMonth(loc.total_buy_monthly_costs)
        /\ result.monthly_comparison.avg_rent_monthly = PerMonth(loc.total_rent_monthly_costs)
        /\ result.monthly_breakdown.buy_total = PerMonth(loc.total_buy_monthly_costs)
        /\ result.monthly_breakdown.rent_total = PerMonth(loc.total_rent_monthly_costs)
        /\ result.monthly_breakdown.buy_mortgage
              = PerMonth(result.buy_breakdown.total_mortgage_payments)
        /\ result.monthly_breakdown.buy_property_tax
              = PerMonth(result.buy_breakdown.total_property_tax)
        /\ result.monthly_breakdown.buy_insurance
              = PerMonth(result.buy_breakdown.total_insurance)
        /\ result.monthly_breakdown.buy_hoa = PerMonth(result.buy_breakdown.total_hoa)
        /\ result.monthly_breakdown.buy_maintenance
              = PerMonth(result.buy_breakdown.total_maintenance)
        /\ result.monthly_breakdown.rent_payment
              = PerMonth(result.rent_breakdown.total_rent_paid)
        /\ result.monthly_breakdown.rent_insurance
              = PerMonth(result.rent_breakdown.total_renters_insurance)

\* A run over more than one year has returned nonzero monthly figures.
AveragesReturned ==
    /\ pc = "done"
    /\ inputs.time_horizon_years > 1
    /\ ~IsZero(result.monthly_breakdown.buy_mortgage)
    /\ ~IsZero(result.monthly_breakdown.rent_payment)
    /\ result.monthly_breakdown.buy_mortgage # result.buy_breakdown.total_mortgage_payments

\* C5: at an annual rate of exactly 0 the monthly payment is the principal
\* divided by the number of months of the term.
ZeroRatePayment ==
    (pc = "amort" /\ am.fn = "calculate_monthly_payment" /\ FEq(am.annual_rate, F(0))) =>
        FEq(am.ret, FDiv(am.principal, F(am.years * 12)))

\* A zero-rate payment on a principal that is not zero has been returned.
ZeroRatePaymentReturned ==
    /\ pc = "amort"
    /\ am.fn = "calculate_monthly_payment"
    /\ IsZero(am.annual_rate)
    /\ ~IsZero(am.principal)
    /\ IsFin(am.ret)
    /\ ~IsZero(am.ret)

\* C6: the remaining balance is exactly 0 once
\* months_paid has reached the term, and it is never negative.
BalanceZeroAfterTerm ==
    (pc = "amort" /\ am.fn = "remaining_balance") =>
        /\ am.months_paid >= am.years * 12 => IsZero(am.ret)
        /\ ~FLt(am.ret, F(0))

\* Parts of C6, checked one by one: the balance is never negative; it is
\* exactly 0 from the end of the term on when the rate is not 0.
BalanceNeverNegative ==
    (pc = "amort" /\ am.fn = "remaining_balance") => ~FLt(am.ret, F(0))

BalanceZeroAfterTermAtRate ==
    (pc = "amort" /\ am.fn = "remaining_balance" /\ ~FEq(am.annual_rate, F(0))
        /\ am.months_paid >= am.years * 12) => IsZero(am.ret)

\* A zero-rate loan paid to the end of its term with a balance left.
BalanceLeftAfterTerm ==
    /\ pc = "amort"
    /\ am.fn = "remaining_balance"
    /\ IsZero(am.annual_rate)
    /\ am.months_paid = am.years * 12
    /\ FLt(F(0), am.ret)

\* C7: a sweep over n steps returns n + 1 samples, the first at min and
\* the last at max, for every n including 0.
SweepEndsAtMax ==
    pc = "swept" =>
        /\ Len(sw.out) = sw.steps + 1
        /\ sw.out[1][1] = sw.min
        /\ LastSample[1] = sw.max

\* A sweep has returned whose last value is not max.
SweepMissedMax ==
    /\ pc = "swept"
    /\ sw.steps >= 2
    /\ Len(sw.out) = sw.steps + 1
    /\ IsFin(LastSample[1])
    /\ LastSample[1] # sw.max

\* `as u32` by its meaning: the largest integer not above a positive value,
\* 0 for NaN and for values that are not positive.
TruncTowardZero(v) ==
    IF IsNaN(v) \/ v.m <= 0 THEN 0
    ELSE IF IsInf(v) THEN Pow2(30) - 1 + Pow2(30)
    ELSE CHOOSE k \in 0..(Pow2(MantBits) - 2) : ~FLt(v, F(k)) /\ FLt(v, F(k + 1))

\* The inputs with one field replaced and the others kept.
WithField(inp, field, v) ==
    IF field \in {"loan_term_years", "time_horizon_years"}
    THEN [inp EXCEPT ![field] = TruncTowardZero(v)]
    ELSE IF field \in DOMAIN inp THEN [inp EXCEPT ![field] = v]
    ELSE inp

\* C8: the difference of each sample is the difference calculate returns for
\* the caller's inputs with only the swept field replaced by the sample's
\* value, truncated toward zero for the two integer fields.
SampleIsRecalculation ==
    (pc = "sweep" /\ sw.i >= 1 /\ sw.field \in FieldNames) =>
        LastSample[2] = calculate(WithField(inputs, sw.field, LastSample[1])).difference

\* A sample of a sweep over the time horizon at a value that is not an
\* integer.
FractionalYearSampled ==
    /\ pc = "sweep"
    /\ sw.i >= 1
    /\ sw.field = "time_horizon_years"
    /\ IsFin(LastSample[1])
    /\ TruncTowardZero(LastSample[1]) >= 1
    /\ F(TruncTowardZero(LastSample[1])) # LastSample[1]
    /\ IsFin(LastSample[2])

\* C9: a sweep over a field name that is not one of the sixteen changes
\* nothing: every sample's difference is the difference of the caller's
\* unmodified inputs.
UnknownFieldIsNoOp ==
    (pc = "sweep" /\ sw.i >= 1 /\ sw.field \notin FieldNames) =>
        LastSample[2] = calculate(inputs).difference

\* A sample of a sweep over an unknown field name.
UnknownFieldSampled ==
    /\ pc = "sweep"
    /\ sw.i >= 1
    /\ sw.field = "home_value"
    /\ IsFin(LastSample[1])
    /\ IsFin(LastSample[2])

\* C10: a calculate call on the inputs of the first call returns the result
\* the first call returned, whatever calls were made in between.
SameInputsSameResult ==
    (pc = "done" /\ seen # << >> /\ seen[1].inputs = inputs) =>
        result = seen[1].result

\* The inputs of the first call have been calculated again, after another
\* calculate call and a sweep.
CalculatedAgain ==
    /\ pc = "done"
    /\ seen # << >>
    /\ seen[1].inputs = inputs
    /\ seen[1].calcs
    /\ seen[1].sweeps
    /\ Len(result.yearly_snapshots) >= 1

\* C11: the result reports down payment = home_price * down_payment_percent
\* / 100, closing costs = home_price * closing_cost_percent / 100 and the
\* renter's initial investment = their sum, and the mortgage principal is
\* home_price - down payment (it shows as principal paid + remaining
\* mortgage); for the default inputs, in thousands, these are 80, 12, 92 and
\* 320.
UpFrontAmounts ==
    pc = "done" =>
        /\ result.buy_breakdown.down_payment
              = FDiv(FMul(inputs.home_price, inputs.down_payment_percent), F(100))
        /\ result.buy_breakdown.closing_costs
              = FDiv(FMul(inputs.home_price, inputs.closing_cost_percent), F(100))
        /\ result.rent_breakdown.initial_investment
              = FAdd(result.buy_breakdown.down_payment, result.buy_breakdown.closing_costs)
        /\ result.buy_breakdown.total_principal_paid
              = FSub(FSub(inputs.home_price, result.buy_breakdown.down_payment),
                     result.buy_breakdown.remaining_mortgage)
        /\ (inputs.home_price = F(400) /\ inputs.down_payment_percent = F(20)
               /\ inputs.closing_cost_percent = F(3)) =>
              /\ result.buy_breakdown.down_payment = F(80)
              /\ result.buy_breakdown.closing_costs = F(12)
              /\ result.rent_breakdown.initial_investment = F(92)
              /\ result.buy_breakdown.total_principal_paid
                    = FSub(F(320), result.buy_breakdown.remaining_mortgage)

\* The default inputs have been calculated.
DefaultsCalculated ==
    /\ pc = "done"
    /\ inputs = DefaultInputs
    /\ result.buy_breakdown.down_payment = F(80)
    /\ ~IsZero(result.buy_breakdown.remaining_mortgage)

\* |x| <= k * ulp(ref) for finite x and ref, ref nonzero: x is at most k
\* units in the last place of ref away from 0.
SmallAgainst(x, ref, k) ==
    /\ IsFin(x) /\ IsFin(ref) /\ ref.m # 0
    /\ \/ x.m = 0
       \/ x.e <= ref.e /\ (ref.e - x.e > 20 \/ Abs(x.m) <= k * Pow2(ref.e - x.e))
       \/ x.e > ref.e /\ x.e - ref.e <= 20 /\ Abs(x.m) * Pow2(x.e - ref.e) <= k

\* The horizon equals the loan term and neither the home nor the
\* investments grow.
PaidOffFlat ==
    /\ pc = "done"
    /\ inputs.time_horizon_years = inputs.loan_term_years
    /\ IsZero(inputs.home_appreciation)
    /\ IsZero(inputs.investment_return)

\* C12, as the spec states it: in that scenario the remaining mortgage is 0,
\* the final home value is the home price, neither side has investment
\* returns, and the buyer's net worth is home price minus selling costs.
PaidOffNetWorthIsHomeLessSelling ==
    PaidOffFlat =>
        /\ IsZero(result.buy_breakdown.remaining_mortgage)
        /\ result.buy_breakdown.final_home_value = inputs.home_price
        /\ IsZero(result.buy_breakdown.investment_returns)
        /\ IsZero(result.rent_breakdown.investment_returns)
        /\ result.buy_breakdown.net_worth
              = FSub(inputs.home_price, result.buy_breakdown.selling_costs)

\* C12, amended: in that scenario the final home value is the home price,
\* the buyer's investment returns are exactly 0 and the renter's are 0 up to
\* the rounding of the sums (within total_months + 1 units in the last place
\* of the renter's balance), the remaining mortgage is 0 when the rate is not
\* 0, and the buyer's net worth is home price - remaining mortgage - selling
\* costs + the monthly savings the buyer invested.
PaidOffNetWorthWithSavings ==
    PaidOffFlat =>
        /\ result.buy_breakdown.final_home_value = inputs.home_price
        /\ IsZero(result.buy_breakdown.investment_returns)
        /\ result.buy_breakdown.investment_balance
              = result.buy_breakdown.monthly_savings_invested
        /\ SmallAgainst(result.rent_breakdown.investment_returns,
                        result.rent_breakdown.final_investment_value,
                        inputs.time_horizon_years * 12 + 1)
        /\ ~IsZero(inputs.mortgage_rate) => IsZero(result.buy_breakdown.remaining_mortgage)
        /\ result.buy_breakdown.net_worth
              = FAdd(FSub(FSub(inputs.home_price, result.buy_breakdown.remaining_mortgage),
                          result.buy_breakdown.selling_costs),
                     result.buy_breakdown.monthly_savings_invested)

\* Such a run has returned with savings the buyer invested.
PaidOffWithBuyerSavings ==
    /\ PaidOffFlat
    /\ ~IsZero(inputs.mortgage_rate)
    /\ ~IsZero(result.buy_breakdown.monthly_savings_invested)
    /\ result.buy_breakdown.net_worth
          # FSub(inputs.home_price, result.buy_breakdown.selling_costs)

\* x multiplied n times by f, each product rounded.
RECURSIVE Compound(_, _, _)
Compound(x, f, n) == IF n = 0 THEN x ELSE FMul(Compound(x, f, n - 1), f)

\* The two monthly costs are equal in every month after l.month up to m, for
\* the locals l of a run on inp.
RECURSIVE CostsEqualFrom(_, _, _)
RECURSIVE CostsEqualAt(_, _, _)
CostsEqualFrom(inp, l, m) ==
    IF l.month >= m THEN TRUE ELSE CostsEqualAt(inp, MonthBody(inp, l), m)

CostsEqualAt(inp, l, m) ==
    l.buy_monthly_cost = l.rent_monthly_cost /\ CostsEqualFrom(inp, l, m)

\* (1 + investment_return / 100 / 12) of the caller's inputs.
InvestmentFactor == FAdd(F(1), FDiv(FDiv(inputs.investment_return, F(100)), F(12)))

\* down payment + closing costs.
StartingCapitalOf(inp) ==
    FAdd(FDiv(FMul(inp.home_price, inp.down_payment_percent), F(100)),
         FDiv(FMul(inp.home_price, inp.closing_cost_percent), F(100)))

StartingCapital == StartingCapitalOf(inputs)

\* C13: while the two monthly costs have been equal in every month run so
\* far, both contribution totals are exactly 0, the buyer's balance is 0 and
\* the renter's balance is the initial investment compounded once per month;
\* the result then reports both contribution totals as 0.
EqualCostsNoDeposits ==
    (pc \in {"loop", "done"} /\ CostsEqualFrom(inputs, InitLocals(inputs), loc.month)) =>
        /\ IsZero(loc.buyer_total_contributions)
        /\ IsZero(loc.renter_monthly_contributions)
        /\ IsZero(loc.buyer_investment_balance)
        /\ loc.renter_investment_balance
              = Compound(StartingCapital, InvestmentFactor, loc.month)
        /\ pc = "done" =>
              /\ IsZero(result.buy_breakdown.monthly_savings_invested)
              /\ IsZero(result.rent_breakdown.monthly_cost_savings)
              /\ result.rent_breakdown.final_investment_value
                    = Compound(StartingCapital, InvestmentFactor,
                               inputs.time_horizon_years * 12)

\* More than a year of equal costs has been run with a return above 0.
EqualCostsRun ==
    /\ pc = "loop"
    /\ loc.month > 12
    /\ CostsEqualFrom(inputs, InitLocals(inputs), loc.month)
    /\ ~IsZero(inputs.investment_return)
    /\ FLt(StartingCapital, loc.renter_investment_balance)

\* The step in which the loop runs one month: the primed locals are those at
\* the end of the month, the unprimed ones those at its start.
MonthRan == pc = "loop" /\ pc' = "loop" /\ loc'.month = loc.month + 1

\* C14: in every month the savings go to the cheaper side only.  When the buy
\* cost is below the rent cost the buyer's balance receives rent - buy and
\* the buyer's contribution total grows by it, while the renter's contribution
\* total is unchanged and the renter's balance receives nothing; otherwise
\* the renter's receive buy - rent and the buyer's are left alone.
SavingsGoToCheaperSide ==
    [][MonthRan =>
         IF FLt(loc'.buy_monthly_cost, loc'.rent_monthly_cost)
         THEN /\ loc'.buyer_total_contributions
                    = FAdd(loc.buyer_total_contributions,
                           FSub(loc'.rent_monthly_cost, loc'.buy_monthly_cost))
              /\ loc'.buyer_investment_balance
                    = FAdd(FMul(loc.buyer_investment_balance, InvestmentFactor),
                           FSub(loc'.rent_monthly_cost, loc'.buy_monthly_cost))
              /\ loc'.renter_monthly_contributions = loc.renter_monthly_contributions
              /\ loc'.renter_investment_balance
                    = FMul(loc.renter_investment_balance, InvestmentFactor)
         ELSE /\ loc'.renter_monthly_contributions
                    = FAdd(loc.renter_monthly_contributions,
                           FSub(loc'.buy_monthly_cost, loc'.rent_monthly_cost))
              /\ loc'.renter_investment_balance
                    = FAdd(FMul(loc.renter_investment_balance, InvestmentFactor),
                           FSub(loc'.buy_monthly_cost, loc'.rent_monthly_cost))
              /\ loc'.buyer_total_contributions = loc.buyer_total_contributions
              /\ loc'.buyer_investment_balance
                    = FMul(loc.buyer_investment_balance, InvestmentFactor)]_vars

\* A month in which the buyer deposited, in a run in which the renter has
\* deposited too.
BothSidesDeposited ==
    /\ pc = "loop"
    /\ FLt(loc.buy_monthly_cost, loc.rent_monthly_cost)
    /\ ~IsZero(loc.buyer_savings)
    /\ ~IsZero(loc.buyer_total_contributions)
    /\ ~IsZero(loc.renter_monthly_contributions)

\* What each side deposits in the month whose end-of-month locals are l.
BuyerDeposit(l) ==
    IF FLt(l.buy_monthly_cost, l.rent_monthly_cost)
    THEN FSub(l.rent_monthly_cost, l.buy_monthly_cost) ELSE F(0)

RenterDeposit(l) ==
    IF FLt(l.buy_monthly_cost, l.rent_monthly_cost)
    THEN F(0) ELSE FSub(l.buy_monthly_cost, l.rent_monthly_cost)

\* C15: a call starts the renter's balance at down payment + closing costs
\* and the buyer's at 0, and in every month each balance is first multiplied
\* by 1 + investment_return / 100 / 12 and then receives the month's deposit:
\* balance_after = balance_before * (1 + r) + deposit.
GrowthPrecedesDeposit ==
    [][/\ (pc = "idle" /\ pc' = "loop") =>
              /\ loc'.renter_investment_balance = StartingCapitalOf(inputs')
              /\ IsZero(loc'.buyer_investment_balance)
       /\ MonthRan =>
              /\ loc'.renter_investment_balance
                    = FAdd(FMul(loc.renter_investment_balance, InvestmentFactor),
                           RenterDeposit(loc'))
              /\ loc'.buyer_investment_balance
                    = FAdd(FMul(loc.buyer_investment_balance, InvestmentFactor),
                           BuyerDeposit(loc'))]_vars

\* A month after the first in which the renter deposited into a balance that
\* earns a return.
DepositAfterGrowth ==
    /\ pc = "loop"
    /\ loc.month >= 2
    /\ ~IsZero(inputs.investment_return)
    /\ ~IsZero(loc.renter_savings)
    /\ FLt(StartingCapital, loc.renter_investment_balance)

\* x added n times to 0, each sum rounded.
RECURSIVE SumOf(_, _)
SumOf(x, n) == IF n = 0 THEN F(0) ELSE FAdd(SumOf(x, n - 1), x)

\* total is the product x * n up to the rounding of n additions.
NearProduct(total, x, n) ==
    IF IsZero(x) \/ n = 0 THEN IsZero(total) ELSE WithinUlps(total, FMul(x, F(n)), n)

\* The months of the loan among the first m months.
MortgageMonths(m) ==
    IF m < inputs.loan_term_years * 12 THEN m ELSE inputs.loan_term_years * 12

\* The monthly payment of the caller's inputs.
MonthlyMortgage ==
    calculate_monthly_payment(FSub(inputs.home_price,
                                   FDiv(FMul(inputs.home_price, inputs.down_payment_percent),
                                        F(100))),
                              inputs.mortgage_rate, inputs.loan_term_years)

\* C16, as the spec states it: the totals are the products of the monthly
\* charge and the number of months it was charged in.
ChargeTotalsAreProducts ==
    pc = "done" =>
        /\ result.buy_breakdown.total_mortgage_payments
              = FMul(MonthlyMortgage, F(MortgageMonths(inputs.time_horizon_years * 12)))
        /\ result.buy_breakdown.total_hoa
              = FMul(inputs.hoa_monthly, F(inputs.time_horizon_years * 12))
        /\ result.buy_breakdown.total_insurance
              = FMul(FDiv(inputs.home_insurance, F(12)), F(inputs.time_horizon_years * 12))

\* C16, amended: the mortgage payment is charged in month m exactly when
\* m <= loan_term_years * 12 and 0 is charged afterwards, and home insurance
\* and HOA are charged in every month; each total is the charge added once
\* per month it was charged in, which is the product of the charge and the
\* number of those months up to the rounding of the additions.
ChargedWhileLoanRuns ==
    /\ (pc = "loop" /\ loc.month >= 1) =>
          loc.mortgage_this_month
             = IF loc.month <= inputs.loan_term_years * 12 THEN MonthlyMortgage ELSE F(0)
    /\ pc \in {"loop", "done"} =>
          /\ loc.total_mortgage_payments = SumOf(MonthlyMortgage, MortgageMonths(loc.month))
          /\ loc.total_hoa = SumOf(inputs.hoa_monthly, loc.month)
          /\ loc.total_home_insurance = SumOf(FDiv(inputs.home_insurance, F(12)), loc.month)
    /\ pc = "done" =>
          /\ result.buy_breakdown.total_mortgage_payments = loc.total_mortgage_payments
          /\ result.buy_breakdown.total_hoa = loc.total_hoa
          /\ result.buy_breakdown.total_insurance = loc.total_home_insurance
          /\ NearProduct(result.buy_breakdown.total_mortgage_payments, MonthlyMortgage,
                         MortgageMonths(inputs.time_horizon_years * 12))
          /\ NearProduct(result.buy_breakdown.total_hoa, inputs.hoa_monthly,
                         inputs.time_horizon_years * 12)
          /\ NearProduct(result.buy_breakdown.total_insurance,
                         FDiv(inputs.home_insurance, F(12)),
                         inputs.time_horizon_years * 12)

\* A run has returned whose loan was paid off before the horizon, with an
\* HOA fee, and whose mortgage total is not the product.
PaidOffBeforeHorizon ==
    /\ pc = "done"
    /\ inputs.loan_term_years < inputs.time_horizon_years
    /\ IsZero(loc.mortgage_this_month)
    /\ ~IsZero(MonthlyMortgage)
    /\ ~IsZero(result.buy_breakdown.total_hoa)
    /\ result.buy_breakdown.total_mortgage_payments
          # FMul(MonthlyMortgage, F(MortgageMonths(inputs.time_horizon_years * 12)))

\* (1 + home_appreciation / 100 / 12) of the caller's inputs.
AppreciationFactor == FAdd(F(1), FDiv(FDiv(inputs.home_appreciation, F(100)), F(12)))

\* The home value after n months: the price multiplied n times by the factor.
HomeValueAfter(n) == Compound(inputs.home_price, AppreciationFactor, n)

\* value * percent / 100 / 12.
MonthlyShare(value, percent) == FDiv(FDiv(FMul(value, percent), F(100)), F(12))

\* The home's books after k more months from ledger: in each month the tax
\* and the maintenance are the monthly shares of the value as it stands, and
\* then the value is multiplied by the factor f.
RECURSIVE HomeLedgerFrom(_, _, _)
HomeLedgerFrom(ledger, f, k) ==
    IF k = 0 THEN ledger
    ELSE HomeLedgerFrom(
             [value       |-> FMul(ledger.value, f),
              tax         |-> FAdd(ledger.tax,
                                   MonthlyShare(ledger.value, inputs.property_tax_rate)),
              maintenance |-> FAdd(ledger.maintenance,
                                   MonthlyShare(ledger.value, inputs.maintenance_percent))],
             f, k - 1)

\* The home's books after m months: the value starts at the price, so month
\* m is taxed on the value as appreciated through month m - 1.
HomeLedger(m) ==
    HomeLedgerFrom([value |-> inputs.home_price, tax |-> F(0), maintenance |-> F(0)],
                   AppreciationFactor, m)

\* The locals hold the books ledger.
LedgerKept(ledger) ==
    /\ loc.current_home_value = ledger.value
    /\ loc.total_property_tax = ledger.tax
    /\ loc.total_maintenance = ledger.maintenance

\* C17, as the spec states it: the final home value is the price times the
\* total_months-th power of the monthly factor.
FinalHomeValueIsPower ==
    pc = "done" =>
        result.buy_breakdown.final_home_value
           = FMul(inputs.home_price,
                  Powf(AppreciationFactor, F(inputs.time_horizon_years * 12)))

\* C17, amended: the home value is multiplied by the monthly factor exactly
\* once per month, whatever the state of the mortgage, and the property tax
\* and maintenance of month m are computed on the value as multiplied m - 1
\* times (month 1 on the price itself).  The final home value is the price
\* multiplied total_months times by the factor, which is the price times the
\* power of the factor up to the rounding of the multiplications (within
\* 2 * total_months units in the last place).
HomeValueCompoundsMonthly ==
    /\ pc \in {"loop", "done"} => LedgerKept(HomeLedger(loc.month))
    /\ pc = "done" =>
          /\ result.buy_breakdown.final_home_value = loc.current_home_value
          /\ loc.month = inputs.time_horizon_years * 12
          /\ result.buy_breakdown.total_property_tax = loc.total_property_tax
          /\ result.buy_breakdown.total_maintenance = loc.total_maintenance
          /\ WithinUlps(result.buy_breakdown.final_home_value,
                        FMul(inputs.home_price,
                             Powf(AppreciationFactor, F(inputs.time_horizon_years * 12))),
                        2 * inputs.time_horizon_years * 12)

\* A run past the end of its loan has returned a home value that has
\* appreciated and is not the price times the power, with tax paid on it.
AppreciatedPastPayoff ==
    /\ pc = "done"
    /\ inputs.loan_term_years < inputs.time_horizon_years
    /\ FLt(inputs.home_price, result.buy_breakdown.final_home_value)
    /\ result.buy_breakdown.final_home_value
          # FMul(inputs.home_price,
                 Powf(AppreciationFactor, F(inputs.time_horizon_years * 12)))
    /\ FLt(FMul(MonthlyShare(inputs.home_price, inputs.property_tax_rate),
                F(inputs.time_horizon_years * 12)),
           result.buy_breakdown.total_property_tax)

\* (1 + rent_increase_rate / 100) of the caller's inputs.
RentFactor == FAdd(F(1), FDiv(inputs.rent_increase_rate, F(100)))

\* The rent of month m >= 1: the initial rent raised once for each whole year
\* before the month.
RentOfMonth(m) == Compound(inputs.monthly_rent, RentFactor, (m - 1) \div 12)

\* The rent of month m as a power of the factor.
RentAsPower(m) == FMul(inputs.monthly_rent, Powf(RentFactor, F((m - 1) \div 12)))

\* The rents of the months 1..m, added one by one.
RECURSIVE RentTotal(_)
RentTotal(m) == IF m = 0 THEN F(0) ELSE FAdd(RentTotal(m - 1), RentOfMonth(m))

\* C18, as the spec states it: the rent charged in month m is the initial
\* rent times the floor((m - 1) / 12)-th power of the yearly factor.
RentIsPowerOfFactor ==
    (pc = "loop" /\ loc.month >= 1) =>
        loc.rent_monthly_cost
           = FAdd(RentAsPower(loc.month), FDiv(inputs.renters_insurance, F(12)))

\* C18, amended: the rent charged in month m is the initial rent multiplied
\* floor((m - 1) / 12) times by 1 + rent_increase_rate / 100: months 1..12
\* pay the initial rent, and the rent is raised once at each 12th month after
\* that month's rent has been charged.  It equals the initial rent times the
\* power of the factor exactly in the first two years and up to the rounding
\* of the multiplications afterwards.
RentRaisedAfterEachYear ==
    /\ pc \in {"loop", "done"} =>
          /\ loc.current_rent = Compound(inputs.monthly_rent, RentFactor, loc.month \div 12)
          /\ loc.total_rent_paid = RentTotal(loc.month)
    /\ (pc \in {"loop", "done"} /\ loc.month >= 1) =>
          /\ loc.rent_monthly_cost
                = FAdd(RentOfMonth(loc.month), FDiv(inputs.renters_insurance, F(12)))
          /\ loc.month <= 24 => RentOfMonth(loc.month) = RentAsPower(loc.month)
          /\ WithinUlps(RentOfMonth(loc.month), RentAsPower(loc.month),
                        2 * ((loc.month - 1) \div 12))
    /\ pc = "done" => result.rent_breakdown.total_rent_paid = loc.total_rent_paid

\* A month of the third year whose rent, raised twice, is not the initial
\* rent times the square of the factor.
RentRaisedTwice ==
    /\ pc = "loop"
    /\ loc.month > 24
    /\ FLt(inputs.monthly_rent, RentOfMonth(13))
    /\ FLt(RentOfMonth(13), RentOfMonth(loc.month))
    /\ loc.rent_monthly_cost
          # FAdd(RentAsPower(loc.month), FDiv(inputs.renters_insurance, F(12)))

\* The locals of a run on inp at the end of month m.
RECURSIVE LocalsAfter(_, _)
LocalsAfter(inp, m) ==
    IF m = 0 THEN InitLocals(inp) ELSE MonthBody(inp, LocalsAfter(inp, m - 1))

\* The loan of the caller's inputs.
LoanAmount ==
    FSub(inputs.home_price,
         FDiv(FMul(inputs.home_price, inputs.down_payment_percent), F(100)))

\* The balance of the loan at the end of year y: remaining_balance at
\* min(12 * y, loan_term_years * 12) months paid.
RemainingAtYear(y) ==
    remaining_balance(LoanAmount, inputs.mortgage_rate, inputs.loan_term_years,
                      MortgageMonths(12 * y))

\* homeValue - remainingMortgage - homeValue * selling_cost_percent / 100 at
\* the end of year y.
HomeEquityAtYear(y) ==
    FSub(FSub(HomeValueAfter(12 * y), RemainingAtYear(y)),
         FDiv(FMul(HomeValueAfter(12 * y), inputs.selling_cost_percent), F(100)))

\* C19, as the spec states it: the buy net worth of the snapshot of year y is
\* home value - remaining mortgage - selling costs.
SnapshotIsHomeEquity ==
    pc \in {"loop", "done"} =>
        \A y \in 1..Len(loc.yearly_snapshots) :
            loc.yearly_snapshots[y].buy_net_worth = HomeEquityAtYear(y)

\* C19, amended: the buy net worth of the snapshot of year y is home value -
\* remaining mortgage - selling costs + the buyer's investment balance, with
\* the home value taken after 12 * y appreciation steps, the remaining
\* mortgage at min(12 * y, loan_term_years * 12) months paid and the balance
\* as it stands after month 12 * y.  At the end of a year the newest snapshot
\* is that of the locals; the result returns the snapshots of all its years.
SnapshotIsEquityPlusSavings ==
    /\ (pc = "loop" /\ loc.month >= 12 /\ loc.month % 12 = 0) =>
          /\ Len(loc.yearly_snapshots) = loc.month \div 12
          /\ loc.yearly_snapshots[loc.month \div 12].buy_net_worth
                = FAdd(HomeEquityAtYear(loc.month \div 12), loc.buyer_investment_balance)
    /\ pc = "done" =>
          /\ result.yearly_snapshots = loc.yearly_snapshots
          /\ \A y \in 1..Len(result.yearly_snapshots) :
                 result.yearly_snapshots[y].buy_net_worth
                    = FAdd(HomeEquityAtYear(y),
                           LocalsAfter(inputs, 12 * y).buyer_investment_balance)

\* A run has returned a second-year snapshot taken after the loan was paid
\* off, with selling costs deducted and savings of the buyer in it.
SnapshotAfterPayoff ==
    /\ pc = "done"
    /\ Len(result.yearly_snapshots) >= 2
    /\ inputs.loan_term_years = 1
    /\ ~IsZero(inputs.mortgage_rate)
    /\ FLt(HomeEquityAtYear(2), HomeValueAfter(24))
    /\ FLt(HomeEquityAtYear(2), result.yearly_snapshots[2].buy_net_worth)

\* C20: the rent net worth of the snapshot of year y is the renter's
\* investment balance as it stands after the growth and deposit of month
\* 12 * y, and nothing else: at the end of a year the newest snapshot holds
\* the balance of the locals, and the last snapshot of a result holds the
\* rent scenario's final net worth.
SnapshotRentIsBalance ==
    /\ (pc = "loop" /\ loc.month >= 12 /\ loc.month % 12 = 0) =>
          /\ Len(loc.yearly_snapshots) = loc.month \div 12
          /\ loc.yearly_snapshots[loc.month \div 12].rent_net_worth
                = loc.renter_investment_balance
    /\ pc = "done" =>
          /\ result.yearly_snapshots = loc.yearly_snapshots
          /\ \A y \in 1..Len(result.yearly_snapshots) :
                 result.yearly_snapshots[y].rent_net_worth
                    = LocalsAfter(inputs, 12 * y).renter_investment_balance
          /\ result.yearly_snapshots[inputs.time_horizon_years].rent_net_worth
                = result.rent_breakdown.net_worth

\* A run of two years or more has returned snapshots of a balance that grew
\* and received deposits.
RentSnapshotsReturned ==
    /\ pc = "done"
    /\ Len(result.yearly_snapshots) >= 2
    /\ ~IsZero(inputs.investment_return)
    /\ ~IsZero(result.rent_breakdown.monthly_cost_savings)
    /\ FLt(StartingCapital, result.yearly_snapshots[1].rent_net_worth)
    /\ FLt(result.yearly_snapshots[1].rent_net_worth,
           result.yearly_snapshots[2].rent_net_worth)

\* C21: the final buy net worth is final home value - remaining mortgage -
\* selling costs + buyer investment balance, with the remaining mortgage
\* remaining_balance at min(total_months, loan_term_years * 12) months paid
\* and the selling costs selling_cost_percent of the final home value; the
\* subtracted balance is 0 when the horizon is not shorter than the loan term.
FinalNetWorthLessOwedBalance ==
    pc = "done" =>
        /\ result.buy_breakdown.net_worth
              = FAdd(FSub(FSub(result.buy_breakdown.final_home_value,
                               result.buy_breakdown.remaining_mortgage),
                          result.buy_breakdown.selling_costs),
                     result.buy_breakdown.investment_balance)
        /\ result.buy_breakdown.remaining_mortgage
              = remaining_balance(LoanAmount, inputs.mortgage_rate, inputs.loan_term_years,
                                  MortgageMonths(inputs.time_horizon_years * 12))
        /\ result.buy_breakdown.selling_costs
              = FDiv(FMul(result.buy_breakdown.final_home_value,
                          inputs.selling_cost_percent), F(100))
        /\ inputs.time_horizon_years >= inputs.loan_term_years =>
              IsZero(result.buy_breakdown.remaining_mortgage)

\* A run whose horizon is past the term of its interest-free loan, and whose
\* last month charged no payment, has returned a remaining mortgage above 0.
OwedAfterInterestFreePayoff ==
    /\ pc = "done"
    /\ inputs.time_horizon_years > inputs.loan_term_years
    /\ IsZero(inputs.mortgage_rate)
    /\ IsZero(loc.mortgage_this_month)
    /\ FLt(F(0), result.buy_breakdown.remaining_mortgage)
    /\ FLt(result.buy_breakdown.total_principal_paid, LoanAmount)

\* Initial capital + contributions + returns of each side, as the result
\* reports them.
RentSideRebuilt ==
    FAdd(FAdd(result.rent_breakdown.initial_investment,
              result.rent_breakdown.monthly_cost_savings),
         result.rent_breakdown.investment_returns)

BuySideRebuilt ==
    FAdd(result.buy_breakdown.monthly_savings_invested,
         result.buy_breakdown.investment_returns)

\* C22, as the spec states it: each final balance is initial capital +
\* contributions + returns, and with an investment return of 0 both returns
\* are 0.
ReturnsIsolateGains ==
    pc = "done" =>
        /\ result.rent_breakdown.final_investment_value = RentSideRebuilt
        /\ result.buy_breakdown.investment_balance = BuySideRebuilt
        /\ IsZero(inputs.investment_return) =>
              /\ IsZero(result.rent_breakdown.investment_returns)
              /\ IsZero(result.buy_breakdown.investment_returns)

\* C22, amended: each side's returns are its final balance minus its initial
\* capital (0 for the buyer) minus its contributions, as computed by those
\* subtractions; adding them back gives the balance up to rounding (within 2
\* units in the last place).  With an investment return of 0 the buyer's
\* returns are exactly 0 and the renter's are 0 up to the rounding of the
\* monthly sums (within total_months + 1 units in the last place of the
\* balance).
ReturnsAreBalanceLessPrincipal ==
    pc = "done" =>
        /\ result.rent_breakdown.investment_returns
              = FSub(FSub(result.rent_breakdown.final_investment_value,
                          result.rent_breakdown.initial_investment),
                     result.rent_breakdown.monthly_cost_savings)
        /\ result.buy_breakdown.investment_returns
              = FSub(result.buy_breakdown.investment_balance,
                     result.buy_breakdown.monthly_savings_invested)
        /\ WithinUlps(RentSideRebuilt, result.rent_breakdown.final_investment_value, 2)
        /\ \/ IsZero(result.buy_breakdown.investment_balance) /\ IsZero(BuySideRebuilt)
           \/ WithinUlps(BuySideRebuilt, result.buy_breakdown.investment_balance, 2)
        /\ IsZero(inputs.investment_return) =>
              /\ IsZero(result.buy_breakdown.investment_returns)
              /\ SmallAgainst(result.rent_breakdown.investment_returns,
                              result.rent_breakdown.final_investment_value,
                              inputs.time_horizon_years * 12 + 1)

\* A run without investment return has returned returns of the renter that
\* are not 0, after deposits of both sides.
ResidueReportedAsReturns ==
    /\ pc = "done"
    /\ IsZero(inputs.investment_return)
    /\ ~IsZero(result.rent_breakdown.investment_returns)
    /\ ~IsZero(result.rent_breakdown.monthly_cost_savings)
    /\ ~IsZero(result.buy_breakdown.monthly_savings_invested)

\* C23: calculate always terminates.  The month index starts at 0 when the
\* call is made, every iteration raises it by 1, it never passes total_months
\* = time_horizon_years * 12, the call returns exactly when it has reached
\* total_months, and every call that is made returns; a sweep of n steps
\* produces one sample per run, returns with n + 1 of them, and always
\* returns.
CalculateTerminates ==
    /\ [](pc = "loop" => loc.month \in 0..(inputs.time_horizon_years * 12))
    /\ [](pc = "done" => loc.month = inputs.time_horizon_years * 12)
    /\ [][/\ (pc = "idle" /\ pc' = "loop") => loc'.month = 0
          /\ (pc = "loop" /\ pc' = "loop") => loc'.month = loc.month + 1]_<<pc, loc>>
    /\ (pc = "loop") ~> (pc = "done")
    /\ [](pc = "sweep" => Len(sw.out) = sw.i /\ sw.i <= sw.steps + 1)
    /\ [](pc = "swept" => Len(sw.out) = sw.steps + 1)
    /\ (pc = "sweep") ~> (pc = "swept")

\* A call over the longest horizon drawn has returned after all its months.
AllMonthsRun ==
    /\ pc = "done"
    /\ inputs.time_horizon_years = MaxYears + 1
    /\ loc.month = 12 * (MaxYears + 1)
    /\ ~IsZero(loc.total_rent_paid)

\* C24: a sweep leaves the caller's inputs unchanged and its samples are
\* independent.  From the call to the return of generate_sensitivity_data no
\* step changes a field of the caller's record, and each sample returned is
\* the difference calculate gives for that record with only the swept field
\* replaced by the sample's own value: no sample sees the override of
\* another.
SweepLeavesInputsUnchanged ==
    /\ [][pc = "sweep" => inputs' = inputs]_<<pc, inputs, sw>>
    /\ [](pc = "swept" =>
             \A j \in 1..Len(sw.out) :
                 sw.out[j][2] = calculate(WithField(inputs, sw.field, sw.out[j][1])).difference)

\* A sweep over the home price has returned four samples with differing
\* differences to a caller whose inputs are not the ones of the first sample.
SweepOverPriceReturned ==
    /\ pc = "swept"
    /\ sw.field = "home_price"
    /\ sw.steps = 3
    /\ Len(sw.out) = 4
    /\ sw.out[1][2] # sw.out[4][2]
    /\ inputs.home_price = F(240)
    /\ inputs.home_price # sw.out[1][1]
    /\ inputs.home_price # sw.out[4][1]

\* C25: calculate has no error outcome.  A call with time_horizon_years = 0
\* runs no loop iteration and returns a result with no snapshots, NaN monthly
\* averages (0 / 0) and a finite difference; a call with loan_term_years = 0
\* returns a result whose monthly payment was not finite, with no mortgage
\* payment made, nothing owed and a finite difference; every such call
\* returns, and so does every sweep that casts its samples to 0 years, with
\* a number as each sample's difference.
NoErrorOutcome ==
    /\ [](pc = "done" /\ inputs.time_horizon_years = 0 =>
             /\ loc.month = 0
             /\ result.yearly_snapshots = << >>
             /\ IsNaN(result.monthly_comparison.avg_buy_monthly)
             /\ IsNaN(result.monthly_comparison.avg_rent_monthly)
             /\ IsZero(result.buy_breakdown.total_mortgage_payments)
             /\ IsZero(result.rent_breakdown.total_rent_paid)
             /\ IsFin(result.buy_breakdown.remaining_mortgage)
             /\ IsFin(result.difference))
    /\ [](pc = "done" /\ inputs.loan_term_years = 0 =>
             /\ ~IsFin(monthly_mortgage_of(inputs))
             /\ IsZero(result.buy_breakdown.total_mortgage_payments)
             /\ IsZero(result.buy_breakdown.remaining_mortgage)
             /\ IsFin(result.buy_breakdown.net_worth)
             /\ IsFin(result.difference)
             /\ Len(result.yearly_snapshots) = inputs.time_horizon_years)
    /\ (pc = "loop") ~> (pc = "done")
    /\ [](pc = "swept" =>
             /\ Len(sw.out) = sw.steps + 1
             /\ \A j \in 1..Len(sw.out) : IsFin(sw.out[j][2]))
    /\ (pc = "sweep") ~> (pc = "swept")

\* A call with neither a horizon nor a loan term, on an interest-free loan,
\* has returned.
DegenerateCallReturned ==
    /\ pc = "done"
    /\ inputs.time_horizon_years = 0
    /\ inputs.loan_term_years = 0
    /\ IsZero(inputs.mortgage_rate)
    /\ ~IsZero(loan_amount_of(inputs))
    /\ IsInf(monthly_mortgage_of(inputs))
    /\ result.yearly_snapshots = << >>
    /\ IsNaN(result.monthly_comparison.avg_buy_monthly)

\* C26: for every horizon H >= 1 the last yearly snapshot is that of year H
\* and agrees with the final aggregates: its buy net worth is
\* buy_breakdown.net_worth and its rent net worth is
\* rent_breakdown.net_worth, so its buy - rent gap is the difference.
LastSnapshotIsFinal ==
    (pc = "done" /\ inputs.time_horizon_years >= 1) =>
        /\ Len(result.yearly_snapshots) = inputs.time_horizon_years
        /\ LET last == result.yearly_snapshots[inputs.time_horizon_years]
           IN /\ last.year = inputs.time_horizon_years
              /\ last.buy_net_worth = result.buy_breakdown.net_worth
              /\ last.rent_net_worth = result.rent_breakdown.net_worth
              /\ FSub(last.buy_net_worth, last.rent_net_worth) = result.difference

\* A run of two years on a loan with interest that is still owed at the
\* horizon has returned, with both sides having invested and the second
\* snapshot unlike the first.
FinalSnapshotWithDebt ==
    /\ pc = "done"
    /\ inputs.time_horizon_years = 2
    /\ inputs.loan_term_years = 2
    /\ ~IsZero(inputs.mortgage_rate)
    /\ Len(result.yearly_snapshots) = 2
    /\ result.yearly_snapshots[1].buy_net_worth # result.yearly_snapshots[2].buy_net_worth
    /\ result.yearly_snapshots[1].rent_net_worth # result.yearly_snapshots[2].rent_net_worth
    /\ IsFin(result.buy_breakdown.net_worth)
    /\ ~IsZero(result.buy_breakdown.net_worth)

\* What C27 says of one month, from the locals l before it to the locals n
\* after it: the month's deposits are >= 0, both contribution totals are
\* >= 0 and not below what they were, and at most one of them has changed.
MonthDepositsSound(l, n) ==
    /\ FGe(n.buyer_savings, F(0))
    /\ FGe(n.renter_savings, F(0))
    /\ FGe(n.buyer_total_contributions, F(0))
    /\ FGe(n.renter_monthly_contributions, F(0))
    /\ FGe(n.buyer_total_contributions, l.buyer_total_contributions)
    /\ FGe(n.renter_monthly_contributions, l.renter_monthly_contributions)
    /\ \/ n.buyer_total_contributions = l.buyer_total_contributions
       \/ n.renter_monthly_contributions = l.renter_monthly_contributions

\* Every monthly cost up to the locals l has been finite: a cost that is not
\* stays in the running cost totals.
CostsFiniteSoFar(l) ==
    IsFin(l.total_buy_monthly_costs) /\ IsFin(l.total_rent_monthly_costs)

\* The contribution totals are the ones the result reports.
ContributionsReported ==
    pc = "done" =>
        /\ result.buy_breakdown.monthly_savings_invested = loc.buyer_total_contributions
        /\ result.rent_breakdown.monthly_cost_savings = loc.renter_monthly_contributions

SameUpTo(a, b, k) == a = b \/ WithinUlps(a, b, k)

\* C28 as stated: principal paid + remaining mortgage is the loan amount,
\* interest paid + principal paid is the total of the mortgage payments, and
\* on an interest-free loan the interest paid is 0 for every horizon.
MortgageAccountsExact ==
    pc = "done" =>
        /\ FAdd(result.buy_breakdown.total_principal_paid,
                result.buy_breakdown.remaining_mortgage) = LoanAmount
        /\ FAdd(result.buy_breakdown.total_interest_paid,
                result.buy_breakdown.total_principal_paid)
              = result.buy_breakdown.total_mortgage_payments
        /\ IsZero(inputs.mortgage_rate) => IsZero(result.buy_breakdown.total_interest_paid)

\* C28, amended: principal paid + remaining mortgage is the loan amount;
\* interest paid is total payments - principal paid, so that interest paid +
\* principal paid is the total of the payments up to one rounding; on an
\* interest-free loan the principal paid is the total of the payments up to
\* the rounding of the additions that made the total, and the interest paid
\* is what is left of that rounding, which need not be 0.
MortgageAccountsUpToRounding ==
    pc = "done" =>
        /\ FAdd(result.buy_breakdown.total_principal_paid,
                result.buy_breakdown.remaining_mortgage) = LoanAmount
        /\ result.buy_breakdown.total_interest_paid
              = FSub(result.buy_breakdown.total_mortgage_payments,
                     result.buy_breakdown.total_principal_paid)
        /\ SameUpTo(FAdd(result.buy_breakdown.total_interest_paid,
                         result.buy_breakdown.total_principal_paid),
                    result.buy_breakdown.total_mortgage_payments, 1)
        /\ IsZero(inputs.mortgage_rate) =>
              SameUpTo(result.buy_breakdown.total_principal_paid,
                       result.buy_breakdown.total_mortgage_payments,
                       MortgageMonths(inputs.time_horizon_years * 12) + 1)

\* A run on an interest-free loan has returned with interest paid that is
\* not 0.
InterestOnInterestFreeLoan ==
    /\ pc = "done"
    /\ IsZero(inputs.mortgage_rate)
    /\ inputs.loan_term_years >= 1
    /\ ~IsZero(LoanAmount)
    /\ ~IsZero(result.buy_breakdown.total_mortgage_payments)
    /\ IsFin(result.buy_breakdown.total_interest_paid)
    /\ ~IsZero(result.buy_breakdown.total_interest_paid)

(***************************************************************************)
(* The bound editors of a slider.                                          *)
(***************************************************************************)

\* Whether the two sliders' bounds are the same.
BoundsKept(s, t) == s.current_min = t.current_min /\ s.current_max = t.current_max

\* Whether a commit of the parse result r is taken as the minimum of s, or
\* as its maximum.
TakenAsMin(s, r) == r.ok /\ FLt(r.v, s.current_max)

TakenAsMax(s, r) == r.ok /\ FLt(s.current_min, r.v)

\* A commit from s to t on the minimum's editor, the text having parsed to r:
\* a value that is taken becomes the minimum, any other leaves the bounds.
MinCommitted(s, r, t) ==
    IF TakenAsMin(s, r) THEN t.current_min = r.v /\ t.current_max = s.current_max
    ELSE BoundsKept(s, t)

MaxCommitted(s, r, t) ==
    IF TakenAsMax(s, r) THEN t.current_max = r.v /\ t.current_min = s.current_min
    ELSE BoundsKept(s, t)

\* A step of the slider from s to t, by the event t notes.
BoundEventSound(s, t) ==
    /\ t.event \in {"blur_min", "enter_min"} =>
          MinCommitted(s, parse_bound_value(s.min_input_value), t)
    /\ t.event \in {"blur_max", "enter_max"} =>
          MaxCommitted(s, parse_bound_value(s.max_input_value), t)
    /\ t.event \in {"escape_min", "escape_max", "click_min", "click_max",
                    "input_min", "input_max"} => BoundsKept(s, t)

\* The editor that the last event has closed, if it has closed one.
ClosedEditorReset(s) ==
    /\ s.event \in {"blur_min", "enter_min", "escape_min"} =>
          /\ ~s.editing_min
          /\ s.min_input_value = format_bound_value(s.current_min, s.step)
    /\ s.event \in {"blur_max", "enter_max", "escape_max"} =>
          /\ ~s.editing_max
          /\ s.max_input_value = format_bound_value(s.current_max, s.step)

\* C29: from bounds with min < max, after any sequence of clicks, text input,
\* blur, Enter and Escape on the two bound editors, current_min < current_max;
\* a commit whose text does not parse or whose value is not strictly on its
\* side of the other bound, and every Escape, leaves both bounds as they
\* were, a commit that is taken changes its own bound only; and after each of
\* blur, Enter and Escape the editor is closed and its text is the formatted
\* current bound.
BoundsStayOrdered ==
    /\ [](FLt(slider.current_min, slider.current_max))
    /\ [](ClosedEditorReset(slider))
    /\ [][BoundEventSound(slider, slider')]_slider

\* Both bounds have been edited, the maximum to 1000 and the minimum to 50,
\* and the last event is an Enter on the minimum's editor whose text was
\* turned down.
CommitTurnedDown ==
    /\ slider.event = "enter_min"
    /\ slider.rejected
    /\ slider.step = F(1)
    /\ slider.current_min = F(50)
    /\ slider.current_max = F(1000)
    /\ ~slider.editing_min
    /\ slider.min_input_value = <<"5", "0">>

====
